---- MODULE Spec2Model ----
(***************************************************************************)
(* FrameForge: the frame extraction pipeline (app/video.py) and the        *)
(* transcript filter and dialogue-to-scene aligner (app/audio.py).         *)
(*                                                                         *)
(* Times are Python floats (IEEE-754 binary64).  A float is modelled bit   *)
(* for bit: a record [neg, hi, lo, e] whose value is                       *)
(*     (-1)^neg * (hi * 2^29 + lo) * 2^e                                   *)
(* with a 53-bit significand hi * 2^29 + lo (2^52 <= m < 2^53), or zero    *)
(* (hi = lo = 0, e = 0).  The significand is split in two limbs because    *)
(* TLC's integers are 32 bits wide.  Sums and differences are rounded to   *)
(* nearest, ties to even, as the hardware does.  Subnormals, infinities    *)
(* and NaN do not occur for the magnitudes the program handles (seconds    *)
(* of video) and are left out.                                             *)
(***************************************************************************)
EXTENDS Integers, Sequences, FiniteSets, TLC

\* ------------------------------------------------------------------------
\* binary64 arithmetic
\* ------------------------------------------------------------------------

Limb == 2^29

MZero == [hi |-> 0, lo |-> 0]

MIsZero(m) == m.hi = 0 /\ m.lo = 0

MLt(a, b) == a.hi < b.hi \/ (a.hi = b.hi /\ a.lo < b.lo)

MAdd(a, b) ==
    LET l == a.lo + b.lo
    IN  [hi |-> a.hi + b.hi + (l \div Limb), lo |-> l % Limb]

\* a - b for a >= b
MSub(a, b) ==
    IF a.lo >= b.lo
    THEN [hi |-> a.hi - b.hi, lo |-> a.lo - b.lo]
    ELSE [hi |-> a.hi - b.hi - 1, lo |-> a.lo + Limb - b.lo]

\* floor(m / 2^d), 0 <= d <= 57
MShr(m, d) ==
    IF d >= 29
    THEN [hi |-> 0, lo |-> m.hi \div 2^(d - 29)]
    ELSE [hi |-> m.hi \div 2^d,
          lo |-> (m.lo \div 2^d) + (m.hi % 2^d) * 2^(29 - d)]

\* m mod 2^d # 0, 0 <= d <= 57
MLowNonzero(m, d) ==
    IF d <= 29 THEN m.lo % 2^d # 0
    ELSE m.lo # 0 \/ m.hi % 2^(d - 29) # 0

\* m * 2
MShl1(m) == [hi |-> m.hi * 2 + (m.lo \div 2^28), lo |-> (m.lo % 2^28) * 2]

\* m * 8: room for the guard, round and sticky bits
MExt(m) == [hi |-> m.hi * 8 + (m.lo \div 2^26), lo |-> (m.lo % 2^26) * 8]

\* m / 2^d with every bit shifted out or-ed into bit 0 (the sticky bit)
MShrJam(m, d) ==
    IF d = 0 THEN m
    ELSE IF d >= 57 THEN [hi |-> 0, lo |-> IF MIsZero(m) THEN 0 ELSE 1]
    ELSE LET s == MShr(m, d)
         IN  IF MLowNonzero(m, d) /\ s.lo % 2 = 0
             THEN [s EXCEPT !.lo = @ + 1] ELSE s

\* Round an extended significand x (2^55 <= x < 2^56, value x * 2^(e-3))
\* to nearest, ties to even.
FRound(neg, x, e) ==
    LET q    == MShr(x, 3)
        low3 == x.lo % 8
        up   == low3 > 4 \/ (low3 = 4 /\ q.lo % 2 = 1)
        r    == IF up THEN MAdd(q, [hi |-> 0, lo |-> 1]) ELSE q
    IN  IF r.hi = 2^24
        THEN [neg |-> neg, hi |-> 2^23, lo |-> 0, e |-> e + 1]
        ELSE [neg |-> neg, hi |-> r.hi, lo |-> r.lo, e |-> e]

RECURSIVE FNormRound(_, _, _)
\* Shift an extended difference left until its top bit is bit 55, then round.
FNormRound(neg, x, e) ==
    IF x.hi >= 2^26 THEN FRound(neg, x, e)
    ELSE FNormRound(neg, MShl1(x), e - 1)

FZero == [neg |-> FALSE, hi |-> 0, lo |-> 0, e |-> 0]

FIsZero(a) == a.hi = 0 /\ a.lo = 0

FMant(a) == [hi |-> a.hi, lo |-> a.lo]

\* |a| < |b|
FMagLt(a, b) ==
    IF FIsZero(b) THEN FALSE
    ELSE IF FIsZero(a) THEN TRUE
    ELSE a.e < b.e \/ (a.e = b.e /\ MLt(FMant(a), FMant(b)))

\* |a| + |b| with sign neg, for nonzero a, b with a.e >= b.e
FMagAdd(neg, a, b) ==
    LET x == MExt(FMant(a))
        y == MShrJam(MExt(FMant(b)), a.e - b.e)
        s == MAdd(x, y)
    IN  IF s.hi >= 2^27
        THEN FRound(neg, MShrJam(s, 1), a.e + 1)
        ELSE FRound(neg, s, a.e)

\* |a| - |b| with sign neg, for nonzero a, b with |a| > |b|
FMagSub(neg, a, b) ==
    LET x == MExt(FMant(a))
        y == MShrJam(MExt(FMant(b)), a.e - b.e)
    IN  FNormRound(neg, MSub(x, y), a.e)

FNeg(a) == IF FIsZero(a) THEN a ELSE [a EXCEPT !.neg = ~@]

\* a + b
FAdd(a, b) ==
    IF FIsZero(a) THEN b
    ELSE IF FIsZero(b) THEN a
    ELSE IF a.neg = b.neg
    THEN IF a.e >= b.e THEN FMagAdd(a.neg, a, b) ELSE FMagAdd(a.neg, b, a)
    ELSE IF FMagLt(b, a) THEN FMagSub(a.neg, a, b)
    ELSE IF FMagLt(a, b) THEN FMagSub(b.neg, b, a)
    ELSE FZero

\* a - b
FSub(a, b) == FAdd(a, FNeg(b))

\* a < b
FLt(a, b) ==
    IF a.neg /\ ~b.neg THEN TRUE
    ELSE IF ~a.neg /\ b.neg THEN FALSE
    ELSE IF a.neg THEN FMagLt(b, a)
    ELSE FMagLt(a, b)

\* a <= b
FLe(a, b) == ~FLt(b, a)

\* The binary64 nearest to the decimal c / 100, as float("<c/100>") returns it
\* (c = 770 is float("7.7") = 0x1.ecccccccccccdp+2).
F(h, l, x) == [neg |-> FALSE, hi |-> h, lo |-> l, e |-> x]

Float(c) ==
    CASE c = 0    -> FZero
      [] c = 40   -> F(13421772, 429496730, -54)
      [] c = 50   -> F(8388608, 0, -53)
      [] c = 80   -> F(13421772, 429496730, -53)
      [] c = 99   -> F(16609443, 450971566, -53)
      [] c = 100  -> F(8388608, 0, -52)
      [] c = 110  -> F(9227468, 429496730, -52)
      [] c = 120  -> F(10066329, 322122547, -52)
      [] c = 130  -> F(10905190, 214748365, -52)
      [] c = 150  -> F(12582912, 0, -52)
      [] c = 200  -> F(8388608, 0, -51)
      [] c = 220  -> F(9227468, 429496730, -51)
      [] c = 230  -> F(9646899, 107374182, -51)
      [] c = 250  -> F(10485760, 0, -51)
      [] c = 300  -> F(12582912, 0, -51)
      [] c = 450  -> F(9437184, 0, -50)
      [] c = 500  -> F(10485760, 0, -50)
      [] c = 600  -> F(12582912, 0, -50)
      [] c = 770  -> F(16148070, 214748365, -50)
      [] c = 900  -> F(9437184, 0, -49)
      [] c = 1000 -> F(10485760, 0, -49)
      [] c = 1490 -> F(15623782, 214748365, -49)
      [] c = 1500 -> F(15728640, 0, -49)
      [] c = 1510 -> F(15833497, 322122547, -49)
      [] c = 2000 -> F(10485760, 0, -48)
      [] c = 740  -> F(15518924, 429496730, -50)
      [] c = 745  -> F(15623782, 214748365, -50)
      [] c = 750  -> F(15728640, 0, -50)
      [] c = 755  -> F(15833497, 322122547, -50)
      [] c = 760  -> F(15938355, 107374182, -50)
      [] c = 765  -> F(16043212, 429496730, -50)
      [] c = 775  -> F(16252928, 0, -50)
      [] c = 780  -> F(16357785, 322122547, -50)
      [] c = 785  -> F(16462643, 107374182, -50)
      [] c = 790  -> F(16567500, 429496730, -50)
      [] c = 795  -> F(16672358, 214748365, -50)
      [] c = 800  -> F(8388608, 0, -49)
      [] c = 805  -> F(8441036, 429496730, -49)
      [] c = 810  -> F(8493465, 322122547, -49)
      [] c = 815  -> F(8545894, 214748365, -49)
      [] c = 820  -> F(8598323, 107374182, -49)
      [] c = 825  -> F(8650752, 0, -49)
      [] c = 830  -> F(8703180, 429496730, -49)
      [] c = 835  -> F(8755609, 322122547, -49)
      [] c = 840  -> F(8808038, 214748365, -49)
      [] c = 845  -> F(8860467, 107374182, -49)
      [] c = 850  -> F(8912896, 0, -49)
      [] c = 855  -> F(8965324, 429496730, -49)
      [] c = 860  -> F(9017753, 322122547, -49)
      [] c = 865  -> F(9070182, 214748365, -49)
      [] c = 870  -> F(9122611, 107374182, -49)
      [] c = 875  -> F(9175040, 0, -49)
      [] c = 880  -> F(9227468, 429496730, -49)
      [] c = 885  -> F(9279897, 322122547, -49)
      [] c = 890  -> F(9332326, 214748365, -49)
      [] c = 895  -> F(9384755, 107374182, -49)
      [] c = 905  -> F(9489612, 429496730, -49)
      [] c = 910  -> F(9542041, 322122547, -49)
      [] c = 915  -> F(9594470, 214748365, -49)
      [] c = 920  -> F(9646899, 107374182, -49)
      [] c = 925  -> F(9699328, 0, -49)
      [] c = 930  -> F(9751756, 429496730, -49)
      [] c = 935  -> F(9804185, 322122547, -49)
      [] c = 940  -> F(9856614, 214748365, -49)
      [] c = 945  -> F(9909043, 107374182, -49)
      [] c = 950  -> F(9961472, 0, -49)
      [] c = 955  -> F(10013900, 429496730, -49)
      [] c = 960  -> F(10066329, 322122547, -49)
      [] c = 965  -> F(10118758, 214748365, -49)
      [] c = 970  -> F(10171187, 107374182, -49)
      [] c = 975  -> F(10223616, 0, -49)
      [] c = 980  -> F(10276044, 429496730, -49)
      [] c = 985  -> F(10328473, 322122547, -49)
      [] c = 990  -> F(10380902, 214748365, -49)
      [] c = 995  -> F(10433331, 107374182, -49)

Decimals == {0, 40, 50, 80, 99, 100, 110, 120, 130, 150, 200, 220, 230, 250, 300, 450,
             500, 600, 770, 900, 1000, 1490, 1500, 1510, 2000} \cup
            {c \in 740..995 : c % 5 = 0}

\* ------------------------------------------------------------------------
\* app/video.py: the frame extraction pipeline
\* ------------------------------------------------------------------------

\* The inputs of one extract_frames call, in hundredths of a second.
Durations == {250, 600, 770}
Intervals == {110, 200}

\* What the primary detector (PySceneDetect) and the secondary one (ffmpeg's
\* scene filter) may report: strictly increasing instants of the video.
SceneLists == {<<>>, <<0>>, <<0, 110>>, <<0, 110, 220>>}
PtsLists   == {<<>>, <<50>>, <<50, 110>>, <<50, 110, 220>>}

SceneCap == 50

\* A video with more scene changes than the secondary method accepts: n
\* instants 0.05 s apart, from 7.40 s on.
LongPts(n) == [i \in 1..n |-> 735 + 5 * i]

LongPtsLists == {LongPts(n) : n \in (SceneCap - 1)..(SceneCap + 2)}

\* Outcome of one single-frame ffmpeg call: exit 0 and the image written; exit
\* 0 and nothing written; CalledProcessError or TimeoutExpired.
Outcomes == {"ok", "nofile", "error"}

\* Images a previous run left in the frames directory.
OldFiles == {{}, {<<"frame", 1>>}, {<<"scene", 1>>}}

FallbackIntervalDefault == Float(200)

\* the 3.0 of extract_frames_fixed_interval(video_path, output_dir, 3.0)
FallbackInterval == Float(300)

\* In a scene tier, the single-frame calls past the first FaultWindow
\* succeed: the failures of a long scene list are explored in its head.
FaultWindow == 4

OutcomesAt(i) == IF i < FaultWindow THEN Outcomes ELSE {"ok"}

\* The lists a detector may report for video v: instants of v.
Detectable(lists, v) ==
    {l \in lists : \A i \in 1..Len(l) : FLt(Float(l[i]), v.duration)}

Floats(cs) == [i \in 1..Len(cs) |-> Float(cs[i])]

Take(s, n) == IF Len(s) <= n THEN s ELSE SubSeq(s, 1, n)

VARIABLES
    use_scene_detection, \* extract_frames argument
    interval_seconds,    \* extract_frames argument
    video,               \* the video file: [duration]
    installed,           \* scenedetect can be imported
    scene_list,          \* what the primary detector reported or raised
    detected_timestamps, \* what the secondary method parsed, or that it raised
    files,               \* the *.jpg files of output_dir
    pc,                  \* position in the call
    handlers,            \* the enclosing except blocks, innermost first
    calls,               \* the tiers invoked so far, in order
    interval,            \* extract_frames_fixed_interval: interval_seconds
    duration,            \* extract_frames_fixed_interval: duration
    timestamps,          \* target_times / scene starts / timestamps[:50]
    idx,                 \* loop index of the extraction loop
    frames,              \* the frames list of the running tier
    attempts,            \* the single-frame ffmpeg calls of the running tier
    result,              \* what extract_frames returned or raised
    transcription_result,\* extract_dialogue_segments argument
    min_duration,        \* extract_dialogue_segments argument
    scenes,              \* match_dialogue_to_scenes argument
    dialogues,           \* result of extract_dialogue_segments
    enhanced_scenes,     \* result of match_dialogue_to_scenes
    apc,                 \* position in the audio analysis
    merge_scenes,        \* merge_consecutive_dialogues argument
    merged,              \* result of merge_consecutive_dialogues
    remerged,            \* result of merging the result again
    npc,                 \* position in the deduplication
    frame_data,          \* generate_screenplay_from_captions argument
    selected_frames,     \* the frames chosen for the timeline
    timeline,            \* the timeline lines written so far
    wpc,                 \* position in generate_screenplay_from_captions
    model,               \* main.py: the global captioning model, or "none"
    frames_data,         \* upload_video: the frames extract_frames returned
    storyboard_frames,   \* upload_video: the captioned frames
    caption_log,         \* what the captioning collaborator did, per frame
    enable_narrative_analysis, \* upload_video argument
    api_key,             \* GOOGLE_API_KEY is set
    narrative_method,    \* upload_video argument
    narrative_log,       \* what the narrative collaborator did
    screenplay_data,     \* upload_video: the screenplay, or "none"
    response,            \* what upload_video returned or raised
    upc,                 \* position in upload_video
    pipeline,            \* upload_video: the components called so far
    audio_file,          \* the intermediate audio file exists
    analysis,            \* what analyze_video_audio returned or raised
    zpc,                 \* position in analyze_video_audio
    handle,              \* main.py: the globals model, processor, is_blip2
    rpc,                 \* concurrent requests: position of each request
    running,             \* the request the event loop is executing, or 0
    loads,               \* the number of load_model calls so far
    successful,          \* the load_model calls that returned
    loaded,              \* per request: the tuple its load_model returned
    used,                \* per request: the handles it captioned with
    todo,                \* per request: the frames it has yet to caption
    form_interval,       \* POST /upload: the interval_seconds field
    form_scene,          \* POST /upload: the use_scene_detection field
    status,              \* the HTTP status of the response, 0 while none
    qpc                  \* position in the request

vars == <<use_scene_detection, interval_seconds, video, installed, scene_list,
          detected_timestamps, files, pc,
          handlers, calls, interval, duration, timestamps, idx, frames,
          attempts, result, transcription_result, min_duration, scenes,
          dialogues, enhanced_scenes, apc, merge_scenes, merged, remerged,
          npc, frame_data, selected_frames, timeline, wpc, model, frames_data,
          storyboard_frames, caption_log, enable_narrative_analysis, api_key,
          narrative_method, narrative_log, screenplay_data, response, upc,
          pipeline, audio_file, analysis, zpc, handle, rpc, running, loads,
          successful, loaded, used, todo, form_interval, form_scene, status,
          qpc>>

narrator == <<merge_scenes, merged, remerged, npc>>

\* The deduplication is not running.
NarratorIdle ==
    /\ merge_scenes = <<>>
    /\ merged = <<>>
    /\ remerged = <<>>
    /\ npc = "idle"

narrative == <<frame_data, selected_frames, timeline, wpc>>

\* No narrative is being generated.
NarrativeIdle ==
    /\ frame_data = <<>>
    /\ selected_frames = <<>>
    /\ timeline = <<>>
    /\ wpc = "idle"

upload == <<model, frames_data, storyboard_frames, caption_log,
            enable_narrative_analysis, api_key, narrative_method,
            narrative_log, screenplay_data, response, upc, pipeline>>

NoResponse == [kind |-> "none", frames |-> <<>>, screenplay |-> "none"]

\* No upload is being processed.
UploadIdle ==
    /\ model = "none"
    /\ frames_data = <<>>
    /\ storyboard_frames = <<>>
    /\ caption_log = <<>>
    /\ enable_narrative_analysis = FALSE
    /\ api_key = FALSE
    /\ narrative_method = "captions"
    /\ narrative_log = "not_run"
    /\ screenplay_data = "none"
    /\ response = NoResponse
    /\ upc = "idle"
    /\ pipeline = <<>>

analyze == <<audio_file, analysis, zpc>>

NoAnalysis == [kind |-> "none"]

\* analyze_video_audio is not running.
AnalyzeIdle ==
    /\ audio_file = FALSE
    /\ analysis = NoAnalysis
    /\ zpc = "idle"

lazy == <<handle, rpc, running, loads, successful, loaded, used, todo>>

\* model = None, processor = None, is_blip2 = False
Unset == [model |-> 0, processor |-> 0, is_blip2 |-> 0]

\* No concurrent requests are being served.
LazyIdle ==
    /\ handle = Unset
    /\ rpc = <<>>
    /\ running = 0
    /\ loads = 0
    /\ successful = {}
    /\ loaded = <<>>
    /\ used = <<>>
    /\ todo = <<>>

request == <<form_interval, form_scene, status, qpc>>

\* interval_seconds: float = Form(None), when the field is absent
Absent == [given |-> FALSE, value |-> FZero]

\* No request is being validated.
RequestIdle ==
    /\ form_interval = Absent
    /\ form_scene = FALSE
    /\ status = 0
    /\ qpc = "idle"

\* The state of the other modules of the application.
others == <<narrator, narrative, upload, analyze, lazy, request>>

OthersIdle ==
    /\ NarratorIdle
    /\ NarrativeIdle
    /\ UploadIdle
    /\ AnalyzeIdle
    /\ LazyIdle
    /\ RequestIdle

audio == <<transcription_result, min_duration, scenes, dialogues,
           enhanced_scenes, apc>>

\* The audio analysis is not running.
AudioIdle ==
    /\ transcription_result = [has_segments |-> FALSE, segments |-> <<>>]
    /\ min_duration = FZero
    /\ scenes = <<>>
    /\ dialogues = <<>>
    /\ enhanced_scenes = <<>>
    /\ apc = "idle"

inputs == <<use_scene_detection, interval_seconds, video, installed>>

NoResult == [kind |-> "none", frames |-> <<>>]

\* scene_list before scene_manager.get_scene_list() has returned
NoSceneList == [kind |-> "none", scenes |-> <<>>]

\* timestamps before the output of the detection pass has been parsed
NoTimestamps == [kind |-> "none", times |-> <<>>]

\* get_video_duration: the parsed ffprobe output, 0.0 on any failure
get_video_duration(v, probe_ok) == IF probe_ok THEN v.duration ELSE FZero

\* while current_time < duration
TargetLoopCond(current_time, d) == FLt(current_time, d)

RECURSIVE TargetLoop(_, _, _, _)
TargetLoop(current_time, d, step, target_times) ==
    IF TargetLoopCond(current_time, d)
    THEN TargetLoop(FAdd(current_time, step), d, step,
                    Append(target_times, current_time))
    ELSE target_times

TargetTimesPastEnd(d, step) == TargetLoop(FZero, FAdd(d, step), step, <<>>)

\* target_times of extract_frames_fixed_interval
TargetTimes(d, step) == TargetLoop(FZero, d, step, <<>>)

\* output_dir / f"{prefix}_{frame_num:04d}.jpg"
OutputFile(prefix, frame_num) == <<prefix, frame_num>>

\* The directory after one single-frame ffmpeg call (-y overwrites).
FilesAfter(fs, out, output_file) ==
    IF out = "ok" THEN fs \cup {output_file} ELSE fs

\* frame_num = idx + 1, idx the 0-based position in the enumerated list
FrameNum(i) == i + 1

\* if output_file.exists(): frames.append({...})
AppendIfExists(fr, fs, ts, output_file, frame_num) ==
    IF output_file \in fs
    THEN Append(fr, [timestamp |-> ts, path |-> output_file,
                     scene_number |-> frame_num])
    ELSE fr

\* try: subprocess.run(...); if output_file.exists(): frames.append(...)
\* except (CalledProcessError, TimeoutExpired): continue
FixedAppend(fr, out, fs, ts, output_file, frame_num) ==
    IF out = "error" THEN fr
    ELSE AppendIfExists(fr, fs, ts, output_file, frame_num)

FixedNextBreak(i, out, n) == IF out = "error" THEN n ELSE i + 1

\* The index of the next iteration of the loop over the n target_times:
\* "continue" after an error, the end of the body otherwise.
FixedNext(i, out, n) == i + 1

\* An exception leaves the running function: the innermost enclosing except
\* block runs, and both except blocks call extract_frames_fixed_interval with
\* 3.0; with no enclosing block the exception leaves extract_frames.
Raise(hs) ==
    IF hs = <<>>
    THEN /\ pc' = "done"
         /\ result' = [kind |-> "error", frames |-> <<>>]
         /\ UNCHANGED <<handlers, calls, interval>>
    ELSE /\ pc' = "fixed"
         /\ interval' = FallbackInterval
         /\ handlers' = Tail(hs)
         /\ calls' = Append(calls, "fixed")
         /\ result' = result

\* return frames: every call on the stack is "return f(...)"
Return(fr) ==
    /\ pc' = "done"
    /\ result' = [kind |-> "frames", frames |-> fr]
    /\ UNCHANGED <<handlers, calls, interval>>

Init ==
    /\ use_scene_detection \in BOOLEAN
    /\ interval_seconds \in {Float(c) : c \in Intervals}
    /\ video \in {[duration |-> Float(c)] : c \in Durations}
    /\ installed \in BOOLEAN
    /\ scene_list = NoSceneList
    /\ detected_timestamps = NoTimestamps
    /\ files \in OldFiles
    /\ pc = "extract_frames"
    /\ handlers = <<>>
    /\ calls = <<>>
    /\ interval = FZero
    /\ duration = FZero
    /\ timestamps = <<>>
    /\ idx = 0
    /\ frames = <<>>
    /\ attempts = <<>>
    /\ result = NoResult
    /\ AudioIdle
    /\ OthersIdle

\* extract_frames: purge output_dir/*.jpg (a failing unlink is ignored), then
\* dispatch on the mode
ExtractFrames ==
    /\ pc = "extract_frames"
    /\ \E kept \in SUBSET files : files' = kept
    /\ IF use_scene_detection
       THEN /\ pc' = "scene"
            /\ calls' = <<"primary">>
            /\ interval' = interval
       ELSE /\ pc' = "fixed"
            /\ calls' = <<"fixed">>
            /\ interval' = interval_seconds
    /\ UNCHANGED <<others, audio, inputs, scene_list, detected_timestamps, handlers, duration, timestamps, idx, frames,
                   attempts, result>>

DurationNegative(d) == FLt(d, FZero)

\* if duration <= 0: raise RuntimeError("Could not determine video duration")
DurationUnknown(d) == FLe(d, FZero)

\* extract_frames_fixed_interval up to the extraction loop
FixedInterval ==
    /\ pc = "fixed"
    /\ \E probe_ok \in BOOLEAN :
         LET d == get_video_duration(video, probe_ok)
         IN  /\ duration' = d
             /\ IF DurationUnknown(d)
                THEN /\ Raise(handlers)
                     /\ UNCHANGED <<timestamps, idx, frames, attempts>>
                ELSE /\ timestamps' = TargetTimes(d, interval)
                     /\ idx' = 0
                     /\ frames' = <<>>
                     /\ attempts' = <<>>
                     /\ pc' = "fixed_loop"
                     /\ UNCHANGED <<handlers, calls, interval, result>>
    /\ UNCHANGED <<others, audio, inputs, scene_list, detected_timestamps, files>>

\* one iteration of the loop of extract_frames_fixed_interval
FixedExtract ==
    /\ pc = "fixed_loop"
    /\ idx < Len(timestamps)
    /\ \E out \in Outcomes :
         LET ts == timestamps[idx + 1]
             output_file == OutputFile("frame", FrameNum(idx))
             fs == FilesAfter(files, out, output_file)
         IN  /\ files' = fs
             /\ attempts' = Append(attempts, [timestamp |-> ts, outcome |-> out,
                                              exists |-> output_file \in fs])
             /\ frames' = FixedAppend(frames, out, fs, ts, output_file,
                                      FrameNum(idx))
             /\ idx' = FixedNext(idx, out, Len(timestamps))
    /\ UNCHANGED <<others, audio, inputs, scene_list, detected_timestamps, pc, handlers, calls, interval, duration, timestamps,
                   result>>

FixedResultNoCheck(fr) == "return"

\* if not frames: raise RuntimeError("No frames were extracted")
FixedResult(fr) == IF fr = <<>> THEN "raise" ELSE "return"

\* the end of extract_frames_fixed_interval
FixedDone ==
    /\ pc = "fixed_loop"
    /\ idx = Len(timestamps)
    /\ IF FixedResult(frames) = "raise" THEN Raise(handlers) ELSE Return(frames)
    /\ UNCHANGED <<others, audio, inputs, scene_list, detected_timestamps, files, duration, timestamps, idx, frames, attempts>>

OnDetectorErrorSecondary == "secondary"

\* except Exception as e: ... return extract_frames_fixed_interval(..., 3.0):
\* a processing error of the primary detector goes to the except block
OnDetectorError == "except"

\* extract_frames_scene_detection up to the extraction loop
SceneDetection ==
    /\ pc = "scene"
    /\ IF ~installed
       THEN \* ImportError: return extract_frames_scene_detection_ffmpeg(...)
            /\ pc' = "ffmpeg"
            /\ handlers' = <<"scene_except">>
            /\ calls' = Append(calls, "secondary")
            /\ UNCHANGED <<scene_list, interval, timestamps, idx, frames,
                           attempts, result>>
       ELSE \E failed \in BOOLEAN, detected \in Detectable(SceneLists, video) :
              IF failed
              THEN \* the detector raised before scene_list was assigned
                   /\ scene_list' = [kind |-> "raised", scenes |-> <<>>]
                   /\ IF OnDetectorError = "secondary"
                      THEN /\ pc' = "ffmpeg"
                           /\ handlers' = <<"scene_except">>
                           /\ calls' = Append(calls, "secondary")
                           /\ UNCHANGED <<interval, result>>
                      ELSE Raise(<<"scene_except">>)
                   /\ UNCHANGED <<timestamps, idx, frames, attempts>>
              ELSE IF Len(detected) < 1
              THEN /\ scene_list' = [kind |-> "list", scenes |-> detected]
                   /\ pc' = "fixed"
                   /\ interval' = FallbackInterval
                   /\ handlers' = <<"scene_except">>
                   /\ calls' = Append(calls, "fixed")
                   /\ UNCHANGED <<timestamps, idx, frames, attempts, result>>
              ELSE /\ scene_list' = [kind |-> "list", scenes |-> detected]
                   /\ pc' = "scene_loop"
                   /\ handlers' = <<"scene_except">>
                   /\ timestamps' = Floats(detected)
                   /\ idx' = 0
                   /\ frames' = <<>>
                   /\ attempts' = <<>>
                   /\ UNCHANGED <<calls, interval, result>>
    /\ UNCHANGED <<others, audio, inputs, detected_timestamps, files, duration>>

\* one iteration of an extraction loop whose subprocess.run is not in a
\* try of its own: an error leaves the function
ExtractOrRaise(prefix) ==
    /\ idx < Len(timestamps)
    /\ \E out \in OutcomesAt(idx) :
         LET ts == timestamps[idx + 1]
             output_file == OutputFile(prefix, FrameNum(idx))
             fs == FilesAfter(files, out, output_file)
         IN  /\ files' = fs
             /\ attempts' = Append(attempts, [timestamp |-> ts, outcome |-> out,
                                              exists |-> output_file \in fs])
             /\ IF out = "error"
                THEN /\ Raise(handlers)
                     /\ UNCHANGED <<frames, idx>>
                ELSE /\ frames' = AppendIfExists(frames, fs, ts, output_file,
                                                 FrameNum(idx))
                     /\ idx' = idx + 1
                     /\ UNCHANGED <<pc, handlers, calls, interval, result>>
    /\ UNCHANGED <<others, audio, inputs, scene_list, detected_timestamps, duration, timestamps>>

\* one iteration of the loop of extract_frames_scene_detection
SceneExtract == pc = "scene_loop" /\ ExtractOrRaise("scene")

\* the end of extract_frames_scene_detection: return frames
SceneDone ==
    /\ pc = "scene_loop"
    /\ idx = Len(timestamps)
    /\ Return(frames)
    /\ UNCHANGED <<others, audio, inputs, scene_list, detected_timestamps, files, duration, timestamps, idx, frames, attempts>>

\* timestamps with no limit on their number
Uncapped(ts) == ts

\* timestamps[:50]
Capped(ts) == Take(ts, SceneCap)

\* extract_frames_scene_detection_ffmpeg up to the extraction loop
SceneDetectionFfmpeg ==
    /\ pc = "ffmpeg"
    /\ \E failed \in BOOLEAN,
          detected \in Detectable(PtsLists \cup LongPtsLists, video) :
         IF failed
         THEN /\ detected_timestamps' = [kind |-> "raised", times |-> <<>>]
              /\ Raise(<<"ffmpeg_except">> \o handlers)
              /\ UNCHANGED <<timestamps, idx, frames, attempts>>
         ELSE IF Len(detected) < 2
         THEN /\ detected_timestamps' = [kind |-> "list", times |-> detected]
              /\ pc' = "fixed"
              /\ interval' = FallbackInterval
              /\ handlers' = <<"ffmpeg_except">> \o handlers
              /\ calls' = Append(calls, "fixed")
              /\ UNCHANGED <<timestamps, idx, frames, attempts, result>>
         ELSE /\ detected_timestamps' = [kind |-> "list", times |-> detected]
              /\ pc' = "ffmpeg_loop"
              /\ handlers' = <<"ffmpeg_except">> \o handlers
              /\ timestamps' = Capped(Floats(detected))
              /\ idx' = 0
              /\ frames' = <<>>
              /\ attempts' = <<>>
              /\ UNCHANGED <<calls, interval, result>>
    /\ UNCHANGED <<others, audio, inputs, scene_list, files, duration>>

\* one iteration of the loop of extract_frames_scene_detection_ffmpeg
FfmpegExtract == pc = "ffmpeg_loop" /\ ExtractOrRaise("scene")

\* the end of extract_frames_scene_detection_ffmpeg: return frames
FfmpegDone ==
    /\ pc = "ffmpeg_loop"
    /\ idx = Len(timestamps)
    /\ Return(frames)
    /\ UNCHANGED <<others, audio, inputs, scene_list, detected_timestamps, files, duration, timestamps, idx, frames, attempts>>

Next ==
    \/ ExtractFrames
    \/ FixedInterval
    \/ FixedExtract
    \/ FixedDone
    \/ SceneDetection
    \/ SceneExtract
    \/ SceneDone
    \/ SceneDetectionFfmpeg
    \/ FfmpegExtract
    \/ FfmpegDone

Spec == Init /\ [][Next]_vars

\* extract_frames in scene-detection mode on a 10 s video with some fifty
\* scene changes in its last seconds
InitLong ==
    /\ use_scene_detection = TRUE
    /\ interval_seconds \in {Float(c) : c \in Intervals}
    /\ video = [duration |-> Float(1000)]
    /\ installed \in BOOLEAN
    /\ scene_list = NoSceneList
    /\ detected_timestamps = NoTimestamps
    /\ files \in OldFiles
    /\ pc = "extract_frames"
    /\ handlers = <<>>
    /\ calls = <<>>
    /\ interval = FZero
    /\ duration = FZero
    /\ timestamps = <<>>
    /\ idx = 0
    /\ frames = <<>>
    /\ attempts = <<>>
    /\ result = NoResult
    /\ AudioIdle
    /\ OthersIdle

SpecLong == InitLong /\ [][Next]_vars

\* ------------------------------------------------------------------------
\* app/audio.py: extract_dialogue_segments and match_dialogue_to_scenes, as
\* analyze_video_audio runs them (steps 3 and 4)
\* ------------------------------------------------------------------------

\* A text is a sequence of characters.
Hello == <<" ", "h", "e", "l", "l", "o", " ">>

Span(s, e, t) == [start |-> Float(s), end |-> Float(e), text |-> t]

\* Transcript spans as the transcription collaborator may report them.
Spans ==
    { Span(450, 900, Hello),
      Span(1490, 2000, <<"a">>),
      Span(1500, 2000, <<"b">>),
      Span(1510, 2000, <<"c", "\n">>),
      Span(0, 50, <<"d">>),
      Span(0, 100, <<" ", "e">>),
      Span(0, 150, Hello),
      Span(0, 99, <<"f">>),
      Span(0, 40, <<"g">>),
      Span(40, 80, <<"h">>),
      Span(80, 120, <<"i">>),
      Span(130, 230, <<"j">>) }

\* Spans of 0.5 s, 1.0 s, 1.5 s and 0.99 s.
DurationsExample ==
    << Span(0, 50, <<"d">>), Span(0, 100, <<" ", "e">>),
       Span(0, 150, Hello), Span(0, 99, <<"f">>) >>

\* Three contiguous spans of 0.4 s.
ContiguousExample ==
    << Span(0, 40, <<"g">>), Span(40, 80, <<"h">>), Span(80, 120, <<"i">>) >>

ExampleTranscripts == {DurationsExample, ContiguousExample}

MaxSegments == 2

MaxScenes == 2

SeqsUpTo(S, n) == UNION {[1..k -> S] : k \in 0..n}

\* The instants frames are taken at, in hundredths of a second.
SceneTimes == <<0, 500, 1000, 1500>>

\* The frame the fixed-interval sampler returns for target number n.
SceneAt(n) ==
    [timestamp |-> Float(SceneTimes[n]), path |-> OutputFile("frame", n),
     scene_number |-> n]

\* Frame lists as extract_frames returns them: increasing in time, numbered
\* by target position.
SceneSeqs(n) ==
    { [i \in 1..Len(ns) |-> SceneAt(ns[i])] :
        ns \in { q \in SeqsUpTo(1..Len(SceneTimes), n) :
                   \A i \in 1..Len(q) : \A j \in 1..Len(q) : i < j => q[i] < q[j] } }

AllScenes == [i \in 1..Len(SceneTimes) |-> SceneAt(i)]

MinDurations == {Float(100), Float(50)}

IsSpace(ch) == ch \in {" ", "\t", "\n", "\r"}

RECURSIVE LStrip(_)
LStrip(t) == IF t # <<>> /\ IsSpace(Head(t)) THEN LStrip(Tail(t)) ELSE t

RECURSIVE RStrip(_)
RStrip(t) ==
    IF t # <<>> /\ IsSpace(t[Len(t)]) THEN RStrip(SubSeq(t, 1, Len(t) - 1)) ELSE t

\* str.strip()
Strip(t) == RStrip(LStrip(t))

KeepSegmentStrict(d, min_d) == FLt(min_d, d)

\* if duration >= min_duration
KeepSegment(d, min_d) == FLe(min_d, d)

RECURSIVE DialogueLoop(_, _, _, _)
\* for segment in transcription_result["segments"]
DialogueLoop(segments, min_d, i, acc) ==
    IF i > Len(segments) THEN acc
    ELSE LET segment == segments[i]
             d == FSub(segment.end, segment.start)
         IN  DialogueLoop(segments, min_d, i + 1,
                 IF KeepSegment(d, min_d)
                 THEN Append(acc, [start |-> segment.start, end |-> segment.end,
                                   duration |-> d, text |-> Strip(segment.text)])
                 ELSE acc)

extract_dialogue_segments(tr, min_d) ==
    IF ~tr.has_segments THEN <<>>
    ELSE DialogueLoop(tr.segments, min_d, 1, <<>>)

\* the int 5 of "scene_time + 5" as a float
Five == Float(500)

OverlapsStrict(dialogue, scene_time) ==
    /\ FLt(dialogue.start, FAdd(scene_time, Five))
    /\ FLt(FSub(scene_time, Five), dialogue.end)

\* dialogue["start"] <= scene_time + 5 and dialogue["end"] >= scene_time - 5
Overlaps(dialogue, scene_time) ==
    /\ FLe(dialogue.start, FAdd(scene_time, Five))
    /\ FLe(FSub(scene_time, Five), dialogue.end)

PrependDialogue(scene_dialogues, text) == <<text>> \o scene_dialogues

\* scene_dialogues.append(dialogue["text"])
AppendDialogue(scene_dialogues, text) == Append(scene_dialogues, text)

RECURSIVE SceneDialogues(_, _, _, _)
\* for dialogue in dialogues
SceneDialogues(scene_time, ds, j, scene_dialogues) ==
    IF j > Len(ds) THEN scene_dialogues
    ELSE SceneDialogues(scene_time, ds, j + 1,
             IF Overlaps(ds[j], scene_time)
             THEN AppendDialogue(scene_dialogues, ds[j].text)
             ELSE scene_dialogues)

\* enhanced_scene = scene.copy() with "dialogues" and "has_dialogue" set
EnhancedScene(scene, scene_dialogues) ==
    [dialogues |-> scene_dialogues, has_dialogue |-> scene_dialogues # <<>>]
        @@ scene

PrependScene(enhanced, enhanced_scene) == <<enhanced_scene>> \o enhanced

\* enhanced_scenes.append(enhanced_scene)
AppendScene(enhanced, enhanced_scene) == Append(enhanced, enhanced_scene)

RECURSIVE MatchLoop(_, _, _, _)
\* for scene in scenes
MatchLoop(ss, ds, i, enhanced) ==
    IF i > Len(ss) THEN enhanced
    ELSE MatchLoop(ss, ds, i + 1,
             AppendScene(enhanced,
                 EnhancedScene(ss[i],
                     SceneDialogues(ss[i].timestamp, ds, 1, <<>>))))

match_dialogue_to_scenes(ss, ds) == MatchLoop(ss, ds, 1, <<>>)

InitAudio ==
    /\ use_scene_detection = FALSE
    /\ interval_seconds = FZero
    /\ video = [duration |-> FZero]
    /\ installed = FALSE
    /\ scene_list = NoSceneList
    /\ detected_timestamps = NoTimestamps
    /\ files = {}
    /\ pc = "idle"
    /\ handlers = <<>>
    /\ calls = <<>>
    /\ interval = FZero
    /\ duration = FZero
    /\ timestamps = <<>>
    /\ idx = 0
    /\ frames = <<>>
    /\ attempts = <<>>
    /\ result = NoResult
    /\ transcription_result \in
         {[has_segments |-> FALSE, segments |-> <<>>]} \cup
         {[has_segments |-> TRUE, segments |-> sg] :
             sg \in SeqsUpTo(Spans, MaxSegments) \cup ExampleTranscripts}
    /\ min_duration \in MinDurations
    /\ scenes \in SceneSeqs(MaxScenes) \cup {AllScenes}
    /\ dialogues = <<>>
    /\ enhanced_scenes = <<>>
    /\ apc = "extract_dialogue_segments"
    /\ OthersIdle

extraction == <<use_scene_detection, interval_seconds, video, installed,
                scene_list, detected_timestamps, files,
                pc, handlers, calls, interval, duration, timestamps, idx,
                frames, attempts, result>>

\* analyze_video_audio step 3: dialogues = extract_dialogue_segments(...)
ExtractDialogueSegments ==
    /\ apc = "extract_dialogue_segments"
    /\ dialogues' = extract_dialogue_segments(transcription_result, min_duration)
    /\ apc' = "match_dialogue_to_scenes"
    /\ UNCHANGED <<others, extraction, transcription_result, min_duration, scenes,
                   enhanced_scenes>>

\* analyze_video_audio step 4: match_dialogue_to_scenes(scenes, dialogues)
MatchDialogueToScenes ==
    /\ apc = "match_dialogue_to_scenes"
    /\ enhanced_scenes' = match_dialogue_to_scenes(scenes, dialogues)
    /\ apc' = "done"
    /\ UNCHANGED <<others, extraction, transcription_result, min_duration, scenes,
                   dialogues>>

NextAudio ==
    \/ ExtractDialogueSegments
    \/ MatchDialogueToScenes

SpecAudio == InitAudio /\ [][NextAudio]_vars

\* ------------------------------------------------------------------------
\* app/narrator.py: merge_consecutive_dialogues
\* ------------------------------------------------------------------------

\* No extraction is running.
ExtractionIdle ==
    /\ use_scene_detection = FALSE
    /\ interval_seconds = FZero
    /\ video = [duration |-> FZero]
    /\ installed = FALSE
    /\ scene_list = NoSceneList
    /\ detected_timestamps = NoTimestamps
    /\ files = {}
    /\ pc = "idle"
    /\ handlers = <<>>
    /\ calls = <<>>
    /\ interval = FZero
    /\ duration = FZero
    /\ timestamps = <<>>
    /\ idx = 0
    /\ frames = <<>>
    /\ attempts = <<>>
    /\ result = NoResult

UpperLetters ==
    << "A", "B", "C", "D", "E", "F", "G", "H", "I", "J", "K", "L", "M",
       "N", "O", "P", "Q", "R", "S", "T", "U", "V", "W", "X", "Y", "Z" >>

LowerLetters ==
    << "a", "b", "c", "d", "e", "f", "g", "h", "i", "j", "k", "l", "m",
       "n", "o", "p", "q", "r", "s", "t", "u", "v", "w", "x", "y", "z" >>

UpperSet == {UpperLetters[i] : i \in 1..Len(UpperLetters)}

LowerChar(ch) ==
    IF ch \in UpperSet
    THEN LowerLetters[CHOOSE i \in 1..Len(UpperLetters) : UpperLetters[i] = ch]
    ELSE ch

\* str.lower()
Lower(t) == [i \in 1..Len(t) |-> LowerChar(t[i])]

\* the 50 of dialogue[:50]
KeyLen == 50

DialogueKeyNoLower(dialogue) == Strip(Take(dialogue, KeyLen))

\* dialogue_key = dialogue[:50].lower().strip()
DialogueKey(dialogue) == Strip(Lower(Take(dialogue, KeyLen)))

SeenAfterToggle(seen_dialogues, dialogue_key) ==
    IF dialogue_key \notin seen_dialogues
    THEN seen_dialogues \cup {dialogue_key}
    ELSE seen_dialogues \ {dialogue_key}

\* if dialogue_key not in seen_dialogues: ...; seen_dialogues.add(dialogue_key)
SeenAfter(seen_dialogues, dialogue_key) ==
    IF dialogue_key \notin seen_dialogues
    THEN seen_dialogues \cup {dialogue_key}
    ELSE seen_dialogues

RECURSIVE UniqueLoop(_, _, _, _)
\* for dialogue in scene["dialogues"]
UniqueLoop(ds, j, seen_dialogues, unique_dialogues) ==
    IF j > Len(ds)
    THEN [unique_dialogues |-> unique_dialogues, seen_dialogues |-> seen_dialogues]
    ELSE LET dialogue_key == DialogueKey(ds[j])
         IN  UniqueLoop(ds, j + 1, SeenAfter(seen_dialogues, dialogue_key),
                 IF dialogue_key \notin seen_dialogues
                 THEN Append(unique_dialogues, ds[j])
                 ELSE unique_dialogues)

\* scene.get("dialogues") is truthy
HasDialogues(scene) == "dialogues" \in DOMAIN scene /\ scene.dialogues # <<>>

NewSceneKeepFlag(scene, unique_dialogues) ==
    [dialogues |-> unique_dialogues] @@ scene

\* new_scene = scene.copy() with "dialogues" and "has_dialogue" replaced
NewScene(scene, unique_dialogues) ==
    [dialogues |-> unique_dialogues, has_dialogue |-> Len(unique_dialogues) > 0]
        @@ scene

RECURSIVE MergeLoop(_, _, _, _)
\* for scene in scenes
MergeLoop(ss, i, seen_dialogues, res) ==
    IF i > Len(ss) THEN res
    ELSE IF HasDialogues(ss[i])
    THEN LET u == UniqueLoop(ss[i].dialogues, 1, seen_dialogues, <<>>)
         IN  MergeLoop(ss, i + 1, u.seen_dialogues,
                       Append(res, NewScene(ss[i], u.unique_dialogues)))
    ELSE MergeLoop(ss, i + 1, seen_dialogues, Append(res, ss[i]))

merge_consecutive_dialogues(ss) ==
    IF ss = <<>> THEN ss ELSE MergeLoop(ss, 1, {}, <<>>)

Rep(n, ch) == [i \in 1..n |-> ch]

\* Dialogue texts: two short ones with one fingerprint and two long ones
\* that agree on their first 50 characters up to case.
Hi == <<"H", "i">>

HiBlank == <<"h", "i", " ">>

LongX == Rep(50, "a") \o <<"x">>

LongY == Rep(49, "a") \o <<"A", "y">>

\* The texts match_dialogue_to_scenes may attach to one frame.
DialogueLists ==
    { <<>>, <<Hi>>, <<HiBlank>>, <<Hi, Hi>>, <<Hi, HiBlank>>, <<LongX>>,
      <<LongY>>, <<LongY, Hi>>, <<Hi, LongX, HiBlank>>, <<LongX, LongY, LongX>> }

MaxMergeScenes == 3

\* Frame n as extract_frames returns it, and as match_dialogue_to_scenes
\* returns it with the texts of one of the lists attached.
MergeScenesAt(n) ==
    {SceneAt(n)} \cup {EnhancedScene(SceneAt(n), ds) : ds \in DialogueLists}

RECURSIVE MergeInputs(_)
\* The frame lists of exactly k frames.
MergeInputs(k) ==
    IF k = 0 THEN {<<>>}
    ELSE {Append(ss, scene) : ss \in MergeInputs(k - 1), scene \in MergeScenesAt(k)}

InitNarrator ==
    /\ ExtractionIdle
    /\ LazyIdle
    /\ RequestIdle
    /\ AudioIdle
    /\ NarrativeIdle
    /\ UploadIdle
    /\ AnalyzeIdle
    /\ merge_scenes \in UNION {MergeInputs(k) : k \in 0..MaxMergeScenes}
    /\ merged = <<>>
    /\ remerged = <<>>
    /\ npc = "merge"

\* scenes = merge_consecutive_dialogues(scenes)
MergeConsecutiveDialogues ==
    /\ npc = "merge"
    /\ merged' = merge_consecutive_dialogues(merge_scenes)
    /\ npc' = "merged"
    /\ UNCHANGED <<extraction, audio, lazy, request, narrative, upload, analyze, merge_scenes, remerged>>

\* merge_consecutive_dialogues applied to its own result
MergeAgain ==
    /\ npc = "merged"
    /\ remerged' = merge_consecutive_dialogues(merged)
    /\ npc' = "done"
    /\ UNCHANGED <<extraction, audio, lazy, request, narrative, upload, analyze, merge_scenes, merged>>

NextNarrator ==
    \/ MergeConsecutiveDialogues
    \/ MergeAgain

SpecNarrator == InitNarrator /\ [][NextNarrator]_vars

\* ------------------------------------------------------------------------
\* app/narrative.py: generate_screenplay_from_captions, the choice of the
\* frames of the timeline
\* ------------------------------------------------------------------------

MaxFrameCount == 40

Min(a, b) == IF a < b THEN a ELSE b

RECURSIVE PyRange(_, _, _)
\* range(start, stop, step), step > 0
PyRange(start, stop, step) ==
    IF start >= stop THEN <<>>
    ELSE <<start>> \o PyRange(start + step, stop, step)

\* indices (0-based) for total_frames > 15
Indices(total_frames) ==
    LET middle_count == Min(9, total_frames - 6)
        step == IF middle_count > 0
                THEN (total_frames - 6) \div middle_count ELSE 1
    IN  <<0, 1, 2>> \o PyRange(3, total_frames - 3, step)
            \o <<total_frames - 3, total_frames - 2, total_frames - 1>>

\* selected_frames
SelectedFrames(fd) ==
    LET total_frames == Len(fd)
    IN  IF total_frames <= 15 THEN fd
        ELSE LET indices == SelectSeq(Indices(total_frames),
                                      LAMBDA i : i < total_frames)
             IN  [k \in 1..Len(indices) |-> fd[indices[k] + 1]]

\* narrative_frames as upload_video builds them: frame_number is the 1-based
\* position of the frame
NarrativeFrames(n) == [i \in 1..n |-> [frame_number |-> i]]

InitNarrative ==
    /\ ExtractionIdle
    /\ LazyIdle
    /\ RequestIdle
    /\ AudioIdle
    /\ NarratorIdle
    /\ UploadIdle
    /\ AnalyzeIdle
    /\ frame_data \in {NarrativeFrames(n) : n \in 0..MaxFrameCount}
    /\ selected_frames = <<>>
    /\ timeline = <<>>
    /\ wpc = "select"

\* total_frames = len(frame_data); if total_frames <= 15: ... else: ...
SelectFrames ==
    /\ wpc = "select"
    /\ selected_frames' = SelectedFrames(frame_data)
    /\ wpc' = "timeline"
    /\ UNCHANGED <<extraction, audio, lazy, request, narrator, upload, analyze, frame_data, timeline>>

\* for frame in selected_frames: timeline += ...
AddToTimeline ==
    /\ wpc = "timeline"
    /\ Len(timeline) < Len(selected_frames)
    /\ timeline' = Append(timeline,
                          selected_frames[Len(timeline) + 1].frame_number)
    /\ UNCHANGED <<extraction, audio, lazy, request, narrator, upload, analyze, frame_data, selected_frames, wpc>>

\* the timeline is complete: the prompt is built from it
BuildPrompt ==
    /\ wpc = "timeline"
    /\ Len(timeline) = Len(selected_frames)
    /\ wpc' = "prompt"
    /\ UNCHANGED <<extraction, audio, lazy, request, narrator, upload, analyze, frame_data, selected_frames,
                   timeline>>

NextNarrative ==
    \/ SelectFrames
    \/ AddToTimeline
    \/ BuildPrompt

SpecNarrative == InitNarrative /\ [][NextNarrative]_vars

\* ------------------------------------------------------------------------
\* app/main.py: upload_video from the extracted frames on, with
\* app/inference.py: generate_caption
\* ------------------------------------------------------------------------

MaxUploadFrames == 2

\* the fallback caption of main.py and inference.py
Sentinel == "Scene from the video"

\* What the captioning collaborator does for one image: a description, a
\* description that is empty once cleaned, the image file missing, any
\* other error.
CaptionOutcomes == {"described", "empty", "missing", "model_error"}

\* generate_caption
generate_caption(outcome) ==
    CASE outcome = "described" -> "A dog runs on the beach."
      [] outcome = "empty" -> Sentinel
      [] outcome = "missing" -> "Image not found"
      [] outcome = "model_error" -> Sentinel

\* if not caption or len(caption.strip()) == 0: caption = "Scene from ..."
CaptionOrSentinel(caption) == IF caption = "" THEN Sentinel ELSE caption

\* FrameCaption(frame_number=idx + 1, timestamp=..., caption=..., ...)
FrameCaption(i, frame_info, caption) ==
    [frame_number |-> i, timestamp |-> frame_info.timestamp,
     caption |-> caption, scene_number |-> frame_info.scene_number]

\* raise HTTPException(status_code=500, ...)
Http500 == [kind |-> "error", frames |-> <<>>, screenplay |-> "none"]

InitUpload ==
    /\ ExtractionIdle
    /\ LazyIdle
    /\ RequestIdle
    /\ AudioIdle
    /\ NarratorIdle
    /\ NarrativeIdle
    /\ AnalyzeIdle
    /\ model \in {"none", "loaded"}
    /\ frames_data \in {[i \in 1..n |-> SceneAt(i)] : n \in 0..MaxUploadFrames}
    /\ storyboard_frames = <<>>
    /\ caption_log = <<>>
    /\ enable_narrative_analysis \in BOOLEAN
    /\ api_key \in BOOLEAN
    /\ narrative_method \in {"captions", "video"}
    /\ narrative_log = "not_run"
    /\ screenplay_data = "none"
    /\ response = NoResponse
    /\ upc = "extracted"
    /\ pipeline = <<"extract_frames">>

others_but_upload ==
    <<extraction, audio, narrator, narrative, analyze, lazy, request>>

\* if not frames_data: raise HTTPException(500, "No frames extracted ...")
CheckFrames ==
    /\ upc = "extracted"
    /\ IF frames_data = <<>>
       THEN response' = Http500 /\ upc' = "done"
       ELSE response' = response /\ upc' = "frames"
    /\ UNCHANGED <<others_but_upload, pipeline, model, frames_data, storyboard_frames,
                   caption_log, enable_narrative_analysis, api_key,
                   narrative_method, narrative_log, screenplay_data>>

\* one iteration of "for idx, frame_info in enumerate(frames_data)": the
\* model is loaded if it is not, the frame is captioned and appended
CaptionFrame ==
    /\ upc = "frames"
    /\ Len(storyboard_frames) < Len(frames_data)
    /\ \E load_ok \in BOOLEAN, outcome \in CaptionOutcomes :
         LET i == Len(storyboard_frames) + 1
         IN  IF model = "none" /\ ~load_ok
             THEN \* raise HTTPException(500, "AI model failed to load")
                  /\ response' = Http500
                  /\ upc' = "done"
                  /\ caption_log' = Append(caption_log, "not_loaded")
                  /\ pipeline' = Append(pipeline, "load_model")
                  /\ UNCHANGED <<model, storyboard_frames>>
             ELSE /\ model' = "loaded"
                  /\ pipeline' = pipeline \o
                        (IF model = "none" THEN <<"load_model">> ELSE <<>>) \o
                        <<"generate_caption">>
                  /\ caption_log' = Append(caption_log, outcome)
                  /\ storyboard_frames' =
                        Append(storyboard_frames,
                               FrameCaption(i, frames_data[i],
                                   CaptionOrSentinel(generate_caption(outcome))))
                  /\ UNCHANGED <<response, upc>>
    /\ UNCHANGED <<others_but_upload, frames_data, enable_narrative_analysis,
                   api_key, narrative_method, narrative_log, screenplay_data>>

\* What the narrative collaborator does: a screenplay, an error result, an
\* exception, or (video method) a failed upload of the video to it.
NarrativeOutcomes(method) ==
    {"ok", "error", "exception"} \cup
        (IF method = "video" THEN {"upload_failed"} ELSE {})

AfterNarrativeExceptionRaise == "raise"

\* except Exception as e: print(...): the run goes on to the response
AfterNarrativeException == "respond"

\* if "error" not in screenplay_result: screenplay_data = ScreenplayData(...)
ScreenplayOf(outcome) == IF outcome = "ok" THEN "set" ELSE "none"

\* The calls of the narrative section: upload_video_to_gemini and, when it
\* returns a file, generate_screenplay_from_video and cleanup_gemini_file;
\* or generate_screenplay_from_captions.
NarrativeCalls(method, outcome) ==
    IF method = "video"
    THEN <<"upload_video_to_gemini">> \o
         (IF outcome = "upload_failed" THEN <<>>
          ELSE <<"generate_screenplay_from_video">> \o
               (IF outcome = "exception" THEN <<>>
                ELSE <<"cleanup_gemini_file">>))
    ELSE <<"generate_screenplay_from_captions">>

\* the narrative section of upload_video
NarrativeAnalysis ==
    /\ upc = "frames"
    /\ Len(storyboard_frames) = Len(frames_data)
    /\ IF enable_narrative_analysis /\ api_key
       THEN \E outcome \in NarrativeOutcomes(narrative_method) :
              /\ narrative_log' = outcome
              /\ pipeline' = pipeline \o NarrativeCalls(narrative_method, outcome)
              /\ screenplay_data' = ScreenplayOf(outcome)
              /\ IF outcome = "exception" /\ AfterNarrativeException = "raise"
                 THEN response' = Http500 /\ upc' = "done"
                 ELSE response' = response /\ upc' = "respond"
       ELSE /\ upc' = "respond"
            /\ UNCHANGED <<narrative_log, screenplay_data, response, pipeline>>
    /\ UNCHANGED <<others_but_upload, model, frames_data, storyboard_frames,
                   caption_log, enable_narrative_analysis, api_key,
                   narrative_method>>

\* return StoryboardResponse(..., frames=storyboard_frames,
\*                           screenplay=screenplay_data)
Respond ==
    /\ upc = "respond"
    /\ response' = [kind |-> "ok", frames |-> storyboard_frames,
                    screenplay |-> screenplay_data]
    /\ upc' = "done"
    /\ UNCHANGED <<others_but_upload, pipeline, model, frames_data, storyboard_frames,
                   caption_log, enable_narrative_analysis, api_key,
                   narrative_method, narrative_log, screenplay_data>>

NextUpload ==
    \/ CheckFrames
    \/ CaptionFrame
    \/ NarrativeAnalysis
    \/ Respond

SpecUpload == InitUpload /\ [][NextUpload]_vars

\* ------------------------------------------------------------------------
\* app/audio.py: analyze_video_audio
\* ------------------------------------------------------------------------

\* A span without its "end" entry.
MalformedSpan == [start |-> Float(0), text |-> <<"k">>]

\* What transcribe_audio may return when it does not return None.
Transcriptions ==
    {[has_segments |-> FALSE, segments |-> <<>>]} \cup
    {[has_segments |-> TRUE, segments |-> sg] :
        sg \in SeqsUpTo(Spans, 1) \cup ExampleTranscripts
                 \cup {<<MalformedSpan>>, <<Span(450, 900, Hello), MalformedSpan>>}}

\* segment["end"] - segment["start"] raises KeyError
RaisesKeyError(tr) ==
    /\ tr.has_segments
    /\ \E i \in 1..Len(tr.segments) :
          ~({"start", "end"} \subseteq DOMAIN tr.segments[i])

\* the default min_duration of extract_dialogue_segments
DefaultMinDuration == Float(100)

\* result = {"has_audio": False, "transcription_available": False, ...,
\*           "dialogue_segments": [], "enhanced_scenes": scenes}
InitialResult(ss) ==
    [kind |-> "running", has_audio |-> FALSE,
     transcription_available |-> FALSE, dialogue_segments |-> <<>>,
     enhanced_scenes |-> ss]

InitAnalyze ==
    /\ ExtractionIdle
    /\ LazyIdle
    /\ RequestIdle
    /\ NarratorIdle
    /\ NarrativeIdle
    /\ UploadIdle
    /\ transcription_result = [has_segments |-> FALSE, segments |-> <<>>]
    /\ min_duration = DefaultMinDuration
    /\ scenes \in SceneSeqs(MaxScenes)
    /\ dialogues = <<>>
    /\ enhanced_scenes = <<>>
    /\ apc = "idle"
    /\ audio_file = FALSE
    /\ analysis = InitialResult(scenes)
    /\ zpc = "extract_audio"

others_but_analyze ==
    <<extraction, narrator, narrative, upload, lazy, request>>

\* os.remove(audio_path) inside try/except: the file may stay
Removed(exists, remove_ok) == IF remove_ok THEN FALSE ELSE exists

\* Step 1: audio_path = extract_audio_from_video(video_path)
ExtractAudio ==
    /\ zpc = "extract_audio"
    /\ \E extracted \in BOOLEAN :
         IF ~extracted
         THEN \* ffmpeg missing or failing: return result
              /\ analysis' = [analysis EXCEPT !.kind = "returned"]
              /\ zpc' = "done"
              /\ UNCHANGED audio_file
         ELSE /\ audio_file' = TRUE
              /\ analysis' = [analysis EXCEPT !.has_audio = TRUE]
              /\ zpc' = "transcribe"
    /\ UNCHANGED <<others_but_analyze, audio>>

\* Step 2: transcription = transcribe_audio(audio_path, ...)
Transcribe ==
    /\ zpc = "transcribe"
    /\ \E transcribed \in BOOLEAN, tr \in Transcriptions, remove_ok \in BOOLEAN :
         IF ~transcribed
         THEN \* whisper missing or failing: remove the audio file, return
              /\ audio_file' = Removed(audio_file, remove_ok)
              /\ analysis' = [analysis EXCEPT !.kind = "returned"]
              /\ zpc' = "done"
              /\ UNCHANGED transcription_result
         ELSE /\ transcription_result' = tr
              /\ analysis' = [analysis EXCEPT !.transcription_available = TRUE]
              /\ zpc' = "segments"
              /\ UNCHANGED audio_file
    /\ UNCHANGED <<others_but_analyze, min_duration, scenes, dialogues,
                   enhanced_scenes, apc>>

\* Step 3: dialogues = extract_dialogue_segments(transcription)
DialogueSegments ==
    /\ zpc = "segments"
    /\ IF RaisesKeyError(transcription_result)
       THEN \* the exception leaves analyze_video_audio
            /\ analysis' = [kind |-> "raised"]
            /\ zpc' = "done"
            /\ UNCHANGED dialogues
       ELSE /\ dialogues' = extract_dialogue_segments(transcription_result,
                                                      DefaultMinDuration)
            /\ analysis' = [analysis EXCEPT !.dialogue_segments = dialogues']
            /\ zpc' = "match"
    /\ UNCHANGED <<others_but_analyze, transcription_result, min_duration,
                   scenes, enhanced_scenes, apc, audio_file>>

\* Step 4: enhanced_scenes = match_dialogue_to_scenes(scenes, dialogues)
MatchScenes ==
    /\ zpc = "match"
    /\ enhanced_scenes' = match_dialogue_to_scenes(scenes, dialogues)
    /\ analysis' = [analysis EXCEPT !.enhanced_scenes = enhanced_scenes']
    /\ zpc' = "cleanup"
    /\ UNCHANGED <<others_but_analyze, transcription_result, min_duration,
                   scenes, dialogues, apc, audio_file>>

\* Clean up audio file; return result
CleanUp ==
    /\ zpc = "cleanup"
    /\ \E remove_ok \in BOOLEAN : audio_file' = Removed(audio_file, remove_ok)
    /\ analysis' = [analysis EXCEPT !.kind = "returned"]
    /\ zpc' = "done"
    /\ UNCHANGED <<others_but_analyze, audio>>

NextAnalyze ==
    \/ ExtractAudio
    \/ Transcribe
    \/ DialogueSegments
    \/ MatchScenes
    \/ CleanUp

SpecAnalyze == InitAnalyze /\ [][NextAnalyze]_vars

\* ------------------------------------------------------------------------
\* app/main.py: upload_video served for several requests at once, from the
\* point where "await file.read()" has suspended each of them
\* ------------------------------------------------------------------------

MaxRequests == 2

Requests == 1..MaxRequests

AwaitsInFrameLoopYes == TRUE

\* upload_video has one await, "content = await file.read()": the frame
\* loop runs on the event loop without suspending
AwaitsInFrameLoop == FALSE

\* Who holds the event loop after a statement of request r's frame loop.
AfterStatement(r) == IF AwaitsInFrameLoop THEN {r, 0} ELSE {r}

\* (model, processor, is_blip2) as the load_model call number n returns it
LoadResult(n) == [model |-> n, processor |-> n, is_blip2 |-> n]

\* startup_event has run: the model is loaded, or the load failed and the
\* three globals were reset
InitLazy ==
    /\ ExtractionIdle
    /\ AudioIdle
    /\ NarratorIdle
    /\ NarrativeIdle
    /\ UploadIdle
    /\ AnalyzeIdle
    /\ RequestIdle
    /\ \E startup_ok \in BOOLEAN :
         /\ handle = (IF startup_ok THEN LoadResult(1) ELSE Unset)
         /\ successful = (IF startup_ok THEN {1} ELSE {})
    /\ loads = 1
    /\ rpc = [r \in Requests |-> "await_read"]
    /\ running = 0
    /\ loaded = [r \in Requests |-> Unset]
    /\ used = [r \in Requests |-> <<>>]
    /\ todo \in [Requests -> 1..MaxUploadFrames]

others_but_lazy ==
    <<extraction, audio, narrator, narrative, upload, analyze, request>>

\* The event loop resumes a suspended request.
Resume(r) ==
    /\ running = 0
    /\ rpc[r] # "done"
    /\ running' = r
    /\ rpc' = [rpc EXCEPT ![r] = IF @ = "await_read" THEN "check" ELSE @]
    /\ UNCHANGED <<others_but_lazy, handle, loads, successful, loaded, used,
                   todo>>

\* if model is None or processor is None:
CheckLoaded(r) ==
    /\ running = r
    /\ rpc[r] = "check"
    /\ rpc' = [rpc EXCEPT ![r] = IF handle.model = 0 \/ handle.processor = 0
                                 THEN "load" ELSE "caption"]
    /\ running' \in AfterStatement(r)
    /\ UNCHANGED <<others_but_lazy, handle, loads, successful, loaded, used,
                   todo>>

\* load_model(MODEL_NAME): returns the tuple, or raises and the request
\* fails with HTTP 500
LoadModel(r) ==
    /\ running = r
    /\ rpc[r] = "load"
    /\ loads' = loads + 1
    /\ \E load_ok \in BOOLEAN :
         IF load_ok
         THEN /\ loaded' = [loaded EXCEPT ![r] = LoadResult(loads + 1)]
              /\ successful' = successful \cup {loads + 1}
              /\ rpc' = [rpc EXCEPT ![r] = "store_model"]
              /\ running' \in AfterStatement(r)
         ELSE /\ rpc' = [rpc EXCEPT ![r] = "done"]
              /\ running' = 0
              /\ UNCHANGED <<loaded, successful>>
    /\ UNCHANGED <<others_but_lazy, handle, used, todo>>

\* model, processor, is_blip2 = ...: the three stores, in this order
StoreModel(r) ==
    /\ running = r
    /\ rpc[r] = "store_model"
    /\ handle' = [handle EXCEPT !.model = loaded[r].model]
    /\ rpc' = [rpc EXCEPT ![r] = "store_processor"]
    /\ running' \in AfterStatement(r)
    /\ UNCHANGED <<others_but_lazy, loads, successful, loaded, used, todo>>

StoreProcessor(r) ==
    /\ running = r
    /\ rpc[r] = "store_processor"
    /\ handle' = [handle EXCEPT !.processor = loaded[r].processor]
    /\ rpc' = [rpc EXCEPT ![r] = "store_is_blip2"]
    /\ running' \in AfterStatement(r)
    /\ UNCHANGED <<others_but_lazy, loads, successful, loaded, used, todo>>

StoreIsBlip2(r) ==
    /\ running = r
    /\ rpc[r] = "store_is_blip2"
    /\ handle' = [handle EXCEPT !.is_blip2 = loaded[r].is_blip2]
    /\ rpc' = [rpc EXCEPT ![r] = "caption"]
    /\ running' \in AfterStatement(r)
    /\ UNCHANGED <<others_but_lazy, loads, successful, loaded, used, todo>>

\* generate_caption(model, processor, frame_image_path, is_blip2=is_blip2),
\* then the next frame or the response
Caption(r) ==
    /\ running = r
    /\ rpc[r] = "caption"
    /\ used' = [used EXCEPT ![r] = Append(@, handle)]
    /\ todo' = [todo EXCEPT ![r] = @ - 1]
    /\ IF todo[r] = 1
       THEN /\ rpc' = [rpc EXCEPT ![r] = "done"]
            /\ running' = 0
       ELSE /\ rpc' = [rpc EXCEPT ![r] = "check"]
            /\ running' \in AfterStatement(r)
    /\ UNCHANGED <<others_but_lazy, handle, loads, successful, loaded>>

NextLazy ==
    \E r \in Requests :
       \/ Resume(r)
       \/ CheckLoaded(r)
       \/ LoadModel(r)
       \/ StoreModel(r)
       \/ StoreProcessor(r)
       \/ StoreIsBlip2(r)
       \/ Caption(r)

SpecLazy == InitLazy /\ [][NextLazy]_vars

\* ------------------------------------------------------------------------
\* app/main.py: upload_video from the request to the end of extract_frames
\* ------------------------------------------------------------------------

\* The interval_seconds fields tried: absent, -1.0, 0.0, 1.1, 2.0, 10.0, 15.0.
FormIntervals ==
    {Absent} \cup
    {[given |-> TRUE, value |-> v] :
        v \in {FNeg(Float(100))} \cup {Float(c) : c \in {0, 110, 200, 1000, 1500}}}

\* if not use_scene_detection and interval_seconds is None:
\*     interval_seconds = 2.0
DefaultInterval(iv, scene) ==
    IF ~scene /\ ~iv.given THEN [given |-> TRUE, value |-> Float(200)] ELSE iv

InvalidIntervalNotPositive(iv) == iv.given /\ FLe(iv.value, FZero)

\* interval_seconds is not None and
\*     (interval_seconds <= 0 or interval_seconds > 10)
InvalidInterval(iv) ==
    iv.given /\ (FLe(iv.value, FZero) \/ FLt(Float(1000), iv.value))

\* interval_seconds or 2.0
IntervalOrDefault(iv) ==
    IF iv.given /\ ~FIsZero(iv.value) THEN iv.value ELSE Float(200)

\* The upload is saved in a new temporary directory: no frames directory.
InitRequest ==
    /\ use_scene_detection = FALSE
    /\ interval_seconds = FZero
    /\ video \in {[duration |-> Float(c)] : c \in Durations}
    /\ installed \in BOOLEAN
    /\ scene_list = NoSceneList
    /\ detected_timestamps = NoTimestamps
    /\ files = {}
    /\ pc = "idle"
    /\ handlers = <<>>
    /\ calls = <<>>
    /\ interval = FZero
    /\ duration = FZero
    /\ timestamps = <<>>
    /\ idx = 0
    /\ frames = <<>>
    /\ attempts = <<>>
    /\ result = NoResult
    /\ AudioIdle
    /\ NarratorIdle
    /\ NarrativeIdle
    /\ UploadIdle
    /\ AnalyzeIdle
    /\ LazyIdle
    /\ form_interval \in FormIntervals
    /\ form_scene \in BOOLEAN
    /\ status = 0
    /\ qpc = "validate"

others_but_request ==
    <<audio, narrator, narrative, upload, analyze, lazy>>

\* upload_video up to the call of extract_frames: the default, the
\* validation, then extract_frames(path, interval_seconds or 2.0, ...)
ValidateRequest ==
    /\ qpc = "validate"
    /\ LET iv == DefaultInterval(form_interval, form_scene)
       IN  IF InvalidInterval(iv)
           THEN \* raise HTTPException(status_code=400, ...)
                /\ status' = 400
                /\ qpc' = "done"
                /\ UNCHANGED <<use_scene_detection, interval_seconds, pc>>
           ELSE /\ use_scene_detection' = form_scene
                /\ interval_seconds' = IntervalOrDefault(iv)
                /\ pc' = "extract_frames"
                /\ qpc' = "extract_frames"
                /\ UNCHANGED status
    /\ UNCHANGED <<others_but_request, form_interval, form_scene, video,
                   installed, scene_list, detected_timestamps, files,
                   handlers, calls, interval, duration, timestamps, idx,
                   frames, attempts, result>>

\* extract_frames has returned or raised: HTTP 500 when it raised or
\* returned no frame, otherwise the run goes on to the response
AfterExtraction ==
    /\ qpc = "extract_frames"
    /\ pc = "done"
    /\ status' = (IF result.kind = "error" \/ result.frames = <<>>
                  THEN 500 ELSE 200)
    /\ qpc' = "done"
    /\ UNCHANGED <<others_but_request, extraction, form_interval, form_scene>>

NextRequest ==
    \/ ValidateRequest
    \/ Next
    \/ AfterExtraction

\* upload_video is sequential code: it keeps running until it has answered.
SpecRequest == InitRequest /\ [][NextRequest]_vars /\ WF_vars(NextRequest)

\* ------------------------------------------------------------------------
\* Properties of extract_frames
\* ------------------------------------------------------------------------

Last(s) == s[Len(s)]

Timestamps(s) == [i \in 1..Len(s) |-> s[i].timestamp]

StrictlyIncreasing(ts) ==
    \A i \in 1..Len(ts) : \A j \in 1..Len(ts) : i < j => FLt(ts[i], ts[j])

\* The decimal, in hundredths, that the float f was parsed from.
Centi(f) == CHOOSE c \in Decimals : Float(c) = f

\* ceil(a / b) for b > 0
CeilDiv(a, b) == (a + b - 1) \div b

Returned == pc = "done" /\ result.kind = "frames"

\* The fixed-interval sampler is running its loop, or was the last tier to
\* run and got past the duration check.
FixedRan ==
    /\ pc \in {"fixed_loop", "done"}
    /\ calls # <<>>
    /\ Last(calls) = "fixed"
    /\ FLt(FZero, duration)

\* The single-frame call returned normally and its image exists.
Succeeded(a) == a.outcome # "error" /\ a.exists

\* C1: the scene_number of every returned frame is its 1-based position in
\* the returned list.
C1_SceneNumbersArePositions ==
    Returned =>
        \A i \in 1..Len(result.frames) : result.frames[i].scene_number = i

\* C2: extract_frames never returns an empty frame list as a success.
C2_NeverReturnsEmpty == Returned => Len(result.frames) >= 1

\* C3: the fixed-interval sampler computes ceil(D / I) target timestamps, all
\* strictly less than D.
C3_TargetCount ==
    (FixedRan /\ pc = "fixed_loop") =>
        /\ Len(timestamps) = CeilDiv(Centi(duration), Centi(interval))
        /\ \A i \in 1..Len(timestamps) : FLt(timestamps[i], duration)

\* C4: in fixed-interval mode, when the extraction at every target timestamp
\* fails with an error or a timeout, extract_frames fails.
C4_TotalFailureIsFatal ==
    (/\ ~use_scene_detection
     /\ pc = "done"
     /\ \A i \in 1..Len(attempts) : attempts[i].outcome = "error")
        => result.kind = "error"

C4_Witness ==
    /\ ~use_scene_detection
    /\ pc = "done"
    /\ Len(attempts) >= 2
    /\ \A i \in 1..Len(attempts) : attempts[i].outcome = "error"
    /\ result.kind = "error"

\* C5: the fixed-interval sampler attempts the target timestamps once each, in
\* increasing order; a failed attempt adds no frame, is not retried and does
\* not stop the later attempts; the frames are those of the attempts that
\* succeeded.
C5_EveryTargetAttemptedOnce ==
    FixedRan =>
        /\ StrictlyIncreasing(timestamps)
        /\ Len(attempts) = idx
        /\ Timestamps(attempts) = SubSeq(timestamps, 1, idx)
        /\ Timestamps(frames) = Timestamps(SelectSeq(attempts, Succeeded))
        /\ pc = "done" => idx = Len(timestamps)
        /\ Returned => result.frames = frames

C5_Witness ==
    /\ FixedRan
    /\ Returned
    /\ Len(attempts) >= 3
    /\ attempts[1].outcome = "error"
    /\ attempts[2].outcome = "ok"
    /\ attempts[3].outcome = "error"
    /\ Len(result.frames) >= 1

\* C6: the timestamps of the returned frames are strictly increasing and lie
\* within [0, duration of the video].
C6_TimestampsIncreasingAndBounded ==
    Returned =>
        /\ StrictlyIncreasing(Timestamps(result.frames))
        /\ \A i \in 1..Len(result.frames) :
              /\ FLe(FZero, result.frames[i].timestamp)
              /\ FLe(result.frames[i].timestamp, video.duration)

C6_Witness ==
    /\ Returned
    /\ use_scene_detection
    /\ Last(calls) = "fixed"
    /\ Len(result.frames) >= 2

\* ------------------------------------------------------------------------
\* Properties of extract_dialogue_segments and match_dialogue_to_scenes
\* ------------------------------------------------------------------------

Range(q) == {q[i] : i \in 1..Len(q)}

Texts(q) == [i \in 1..Len(q) |-> q[i].text]

AudioDone == apc = "done"

DistinctTexts(ds) ==
    \A i \in 1..Len(ds) : \A j \in 1..Len(ds) : i # j => ds[i].text # ds[j].text

\* The text of dialogue segment j is on output frame i.
Attached(i, j) == dialogues[j].text \in Range(enhanced_scenes[i].dialogues)

\* Segment d lies wholly after t + 5 or wholly before t - 5.
OutsideWindow(d, t) ==
    \/ FLt(FAdd(t, Five), d.start)
    \/ FLt(d.end, FSub(t, Five))

\* C7: a dialogue segment is attached to a frame iff start <= timestamp + 5
\* and end >= timestamp - 5, both inclusive: at a frame at 10.0 a segment
\* starting at 14.9 or at 15.0 attaches and one starting at 15.1 does not; the
\* segment (4.5, 9.0) attaches to the frames at 0, 5 and 10 and not to 15.
C7_WindowInclusive ==
    (AudioDone /\ DistinctTexts(dialogues)) =>
        \A i \in 1..Len(enhanced_scenes) : \A j \in 1..Len(dialogues) :
            LET t == enhanced_scenes[i].timestamp
                d == dialogues[j]
            IN  /\ Attached(i, j) <=> ~OutsideWindow(d, t)
                /\ (t = Float(1000) /\ d.start = Float(1490)) => Attached(i, j)
                /\ (t = Float(1000) /\ d.start = Float(1500)) => Attached(i, j)
                /\ (t = Float(1000) /\ d.start = Float(1510)) => ~Attached(i, j)
                /\ (d.start = Float(450) /\ d.end = Float(900)) =>
                       (Attached(i, j) <=> t # Float(1500))

C7_Witness ==
    /\ AudioDone
    /\ DistinctTexts(dialogues)
    /\ \E i \in 1..Len(enhanced_scenes) :
         /\ enhanced_scenes[i].timestamp = Float(1000)
         /\ \E j \in 1..Len(dialogues) :
              dialogues[j].start = Float(1500) /\ Attached(i, j)
         /\ \E j \in 1..Len(dialogues) :
              dialogues[j].start = Float(1510) /\ ~Attached(i, j)

\* C8: match_dialogue_to_scenes returns one frame per input frame, in the
\* same order, each with the timestamp, path and scene_number of its input.
C8_SameFramesSameOrder ==
    AudioDone =>
        /\ Len(enhanced_scenes) = Len(scenes)
        /\ \A i \in 1..Len(scenes) :
              /\ enhanced_scenes[i].timestamp = scenes[i].timestamp
              /\ enhanced_scenes[i].path = scenes[i].path
              /\ enhanced_scenes[i].scene_number = scenes[i].scene_number

C8_Witness ==
    /\ AudioDone
    /\ Len(scenes) >= 2
    /\ \E i \in 1..Len(enhanced_scenes) : enhanced_scenes[i].has_dialogue
    /\ \E i \in 1..Len(enhanced_scenes) : ~enhanced_scenes[i].has_dialogue

\* C9: the dialogues of a frame are the texts of the segments matching it, in
\* the segments' order and unaltered; has_dialogue is true iff the list is
\* non-empty, and a frame matching no segment gets an empty list and FALSE.
C9_DialoguesInSegmentOrder ==
    AudioDone =>
        \A i \in 1..Len(enhanced_scenes) :
            LET t == enhanced_scenes[i].timestamp
                matching == SelectSeq(dialogues, LAMBDA d : ~OutsideWindow(d, t))
            IN  /\ enhanced_scenes[i].dialogues = Texts(matching)
                /\ enhanced_scenes[i].has_dialogue
                       <=> enhanced_scenes[i].dialogues # <<>>
                /\ matching = <<>> =>
                       /\ enhanced_scenes[i].dialogues = <<>>
                       /\ enhanced_scenes[i].has_dialogue = FALSE

C9_Witness ==
    /\ AudioDone
    /\ \E i \in 1..Len(enhanced_scenes) : \E k \in 1..Len(enhanced_scenes) :
         /\ i # k
         /\ Len(enhanced_scenes[i].dialogues) = 2
         /\ enhanced_scenes[i].dialogues[1] # enhanced_scenes[i].dialogues[2]
         /\ enhanced_scenes[k].dialogues = <<enhanced_scenes[i].dialogues[1]>>
    /\ \E i \in 1..Len(enhanced_scenes) : ~enhanced_scenes[i].has_dialogue

\* t is orig without its leading and trailing whitespace.
IsTrimOf(t, orig) ==
    /\ t # <<>> => ~IsSpace(t[1]) /\ ~IsSpace(t[Len(t)])
    /\ \E i \in 0..Len(orig) :
         /\ i + Len(t) <= Len(orig)
         /\ SubSeq(orig, i + 1, i + Len(t)) = t
         /\ \A k \in 1..Len(orig) :
              (k <= i \/ k > i + Len(t)) => IsSpace(orig[k])

\* C10: extract_dialogue_segments returns the spans with end - start >=
\* min_duration, in their order, with start and end unchanged and the text
\* trimmed; shorter spans are dropped, never merged: of spans of 0.5, 1.0, 1.5
\* and 0.99 s those of 1.0 and 1.5 s survive a min_duration of 1.0, and three
\* contiguous spans of 0.4 s yield nothing.
C10_FilterByDuration ==
    (apc # "extract_dialogue_segments" /\ transcription_result.has_segments) =>
        LET spans == transcription_result.segments
            kept == SelectSeq(spans,
                        LAMBDA sp : ~FLt(FSub(sp.end, sp.start), min_duration))
        IN  /\ Len(dialogues) = Len(kept)
            /\ \A k \in 1..Len(kept) :
                  /\ dialogues[k].start = kept[k].start
                  /\ dialogues[k].end = kept[k].end
                  /\ IsTrimOf(dialogues[k].text, kept[k].text)
            /\ (spans = DurationsExample /\ min_duration = Float(100)) =>
                  /\ Len(dialogues) = 2
                  /\ dialogues[1].end = Float(100)
                  /\ dialogues[2].end = Float(150)
            /\ spans = ContiguousExample => dialogues = <<>>

C10_Witness ==
    /\ AudioDone
    /\ transcription_result.segments = DurationsExample
    /\ min_duration = Float(100)
    /\ Len(dialogues) = 2
    /\ dialogues[1].text = <<"e">>

\* ------------------------------------------------------------------------
\* Properties of merge_consecutive_dialogues
\* ------------------------------------------------------------------------

Merged == npc \in {"merged", "done"}

\* The first 50 characters, lowercased, trimmed.
Fingerprint(d) == Strip(Lower(SubSeq(d, 1, IF Len(d) < 50 THEN Len(d) ELSE 50)))

\* The fingerprints of the dialogues of the frames before frame i.
EarlierFrameKeys(ss, i) ==
    UNION { { Fingerprint(ss[k].dialogues[m]) : m \in 1..Len(ss[k].dialogues) } :
            k \in { n \in 1..(i - 1) : "dialogues" \in DOMAIN ss[n] } }

\* The dialogues of frame i whose fingerprint is on no earlier frame.
NotOnEarlierFrame(ss, i) ==
    SelectSeq(ss[i].dialogues,
              LAMBDA d : Fingerprint(d) \notin EarlierFrameKeys(ss, i))

\* C11 as stated: merge_consecutive_dialogues drops a dialogue string from a
\* frame exactly when its fingerprint (first 50 characters, lowercased,
\* trimmed) was already seen on an earlier frame; every other dialogue
\* string is kept on its frame in its original order.
C11_DropsExactlyEarlierFrameRepeats ==
    Merged =>
        /\ Len(merged) = Len(merge_scenes)
        /\ \A i \in 1..Len(merge_scenes) :
             IF "dialogues" \in DOMAIN merge_scenes[i]
             THEN /\ "dialogues" \in DOMAIN merged[i]
                  /\ merged[i].dialogues = NotOnEarlierFrame(merge_scenes, i)
             ELSE merged[i] = merge_scenes[i]

\* The fingerprints seen before dialogue j of frame i: those of the earlier
\* frames and those of the dialogues before it on its own frame.
SeenBefore(ss, i, j) ==
    EarlierFrameKeys(ss, i)
        \cup { Fingerprint(ss[i].dialogues[m]) : m \in 1..(j - 1) }

RECURSIVE NotSeenBefore(_, _, _)
\* The dialogues of frame i from position j on whose fingerprint was not
\* seen before them.
NotSeenBefore(ss, i, j) ==
    IF j > Len(ss[i].dialogues) THEN <<>>
    ELSE (IF Fingerprint(ss[i].dialogues[j]) \in SeenBefore(ss, i, j)
          THEN <<>> ELSE <<ss[i].dialogues[j]>>)
         \o NotSeenBefore(ss, i, j + 1)

\* C11, amended: merge_consecutive_dialogues drops a dialogue string from a
\* frame exactly when its fingerprint was already seen earlier in the run,
\* on an earlier frame or earlier on the same frame; every other dialogue
\* string is kept on its frame in its original order.
C11_DropsExactlySeenFingerprints ==
    Merged =>
        /\ Len(merged) = Len(merge_scenes)
        /\ \A i \in 1..Len(merge_scenes) :
             IF "dialogues" \in DOMAIN merge_scenes[i]
             THEN /\ "dialogues" \in DOMAIN merged[i]
                  /\ merged[i].dialogues = NotSeenBefore(merge_scenes, i, 1)
             ELSE merged[i] = merge_scenes[i]

\* One frame lost a repeat of an earlier frame and kept another dialogue,
\* and one frame lost a repeat of a dialogue of its own.
C11_Witness ==
    /\ npc = "merged"
    /\ \E i \in 2..Len(merged) :
         /\ HasDialogues(merged[i])
         /\ NotOnEarlierFrame(merge_scenes, i) # merge_scenes[i].dialogues
    /\ \E i \in 1..Len(merged) :
         /\ HasDialogues(merged[i])
         /\ merged[i].dialogues # NotOnEarlierFrame(merge_scenes, i)

\* The dialogues and has_dialogue entries of a frame, absent ones included.
DialogueFields(scene) ==
    [k \in DOMAIN scene \cap {"dialogues", "has_dialogue"} |-> scene[k]]

\* C12: deduplication is idempotent: merging the merged list again changes
\* neither the dialogues list nor the has_dialogue flag of any frame.
C12_DedupIdempotent ==
    npc = "done" =>
        /\ Len(remerged) = Len(merged)
        /\ \A i \in 1..Len(merged) :
             DialogueFields(remerged[i]) = DialogueFields(merged[i])

\* The first pass emptied one frame and shortened another, and the second
\* pass has run.
C12_Witness ==
    /\ npc = "done"
    /\ \E i \in 1..Len(merged) :
         /\ HasDialogues(merge_scenes[i])
         /\ merged[i].dialogues = <<>>
    /\ \E i \in 1..Len(merged) :
         /\ HasDialogues(merged[i])
         /\ merged[i].dialogues # merge_scenes[i].dialogues

\* ------------------------------------------------------------------------
\* Properties of generate_screenplay_from_captions
\* ------------------------------------------------------------------------

\* The positions (1-based) of the frames of the timeline.
InContext == [k \in 1..Len(timeline) |-> timeline[k]]

\* C13: for every frame count N > 15 the frames put into the narrative
\* context are the first 3 frames, the last 3 frames and at most 9 frames
\* of the remaining N - 6, so at most 15 frames are selected and never
\* every frame; for N <= 15 all frames are used.
C13_AtMostFifteenFrames ==
    wpc = "prompt" =>
        LET N == Len(frame_data)
            chosen == {InContext[k] : k \in 1..Len(InContext)}
        IN  IF N > 15
            THEN /\ {1, 2, 3} \subseteq chosen
                 /\ {N - 2, N - 1, N} \subseteq chosen
                 /\ Cardinality(chosen \cap (4..(N - 3))) <= 9
                 /\ Len(InContext) <= 15
                 /\ chosen # 1..N
            ELSE InContext = [k \in 1..N |-> k]

\* ------------------------------------------------------------------------
\* Properties of the fallback chain of extract_frames
\* ------------------------------------------------------------------------

RECURSIVE FramesOf(_, _, _)
\* The frames a tier returns for its single-frame calls att, from call k on:
\* one frame per call that returned normally with its image in place,
\* numbered by the position of the call.
FramesOf(prefix, att, k) ==
    IF k > Len(att) THEN <<>>
    ELSE (IF Succeeded(att[k])
          THEN << [timestamp |-> att[k].timestamp,
                   path |-> OutputFile(prefix, k), scene_number |-> k] >>
          ELSE <<>>)
         \o FramesOf(prefix, att, k + 1)

\* What the secondary method returns when its own extraction loop ends: the
\* frames at the first 50 of at least 2 instants it detected.
SecondaryResult ==
    /\ \E d \in Detectable(PtsLists, video) :
         /\ Len(d) >= 2
         /\ timestamps = Take(Floats(d), 50)
    /\ Timestamps(attempts) = timestamps
    /\ result.frames = FramesOf("scene", attempts, 1)

\* What the fixed-interval sampler returns for interval 3.0.
FixedThreeResult ==
    /\ interval = Float(300)
    /\ timestamps = TargetTimes(duration, Float(300))
    /\ Timestamps(attempts) = timestamps
    /\ result.frames = FramesOf("frame", attempts, 1)
    /\ result.frames # <<>>

PrimaryUnavailable == use_scene_detection /\ ~installed

Dispatched == pc \in {"fixed", "scene"} /\ Len(calls) = 1

\* C15: extract_frames purges every previously extracted still image of the
\* working area before either extraction path starts, and no image of an
\* earlier run is referenced by the result: every returned frame is an image
\* written by a single-frame call of this run.
C15_PurgedBeforeExtraction ==
    /\ Dispatched => files = {}
    /\ Returned =>
         \A i \in 1..Len(result.frames) :
            attempts[result.frames[i].scene_number].outcome = "ok"

\* ------------------------------------------------------------------------
\* Properties of upload_video
\* ------------------------------------------------------------------------

\* C16: captioning never aborts an upload run: for every frame, any failure
\* of the captioning collaborator (image missing, model error, empty
\* output, model not yet loaded) results in the caption "Scene from the
\* video" for that frame and the run continues with the next frame.
C16_CaptioningNeverAborts ==
    \A i \in 1..Len(caption_log) :
       caption_log[i] # "described" =>
          /\ response.kind # "error"
          /\ Len(storyboard_frames) >= i
          /\ storyboard_frames[i].caption = "Scene from the video"

NarrativeFailed == narrative_log \in {"error", "exception", "upload_failed"}

\* C18: a failure of the narrative collaborator (an error result, an
\* exception, or a failed video upload to it) never fails the upload run:
\* the response is returned with all frames and captions and without a
\* screenplay.
C18_NarrativeFailureDegrades ==
    (upc = "done" /\ NarrativeFailed) =>
        /\ response.kind = "ok"
        /\ response.screenplay = "none"
        /\ Len(response.frames) = Len(frames_data)
        /\ \A i \in 1..Len(frames_data) :
              /\ response.frames[i].frame_number = i
              /\ response.frames[i].timestamp = frames_data[i].timestamp
              /\ response.frames[i].caption =
                    CaptionOrSentinel(generate_caption(caption_log[i]))

\* The narrative collaborator raised an exception and the response went out
\* with two captioned frames.
C18_Witness ==
    /\ upc = "done"
    /\ narrative_log = "exception"
    /\ response.kind = "ok"
    /\ Len(response.frames) = 2

\* ------------------------------------------------------------------------
\* Properties of analyze_video_audio
\* ------------------------------------------------------------------------

\* C17: when audio extraction or transcription is unavailable or fails,
\* analyze_video_audio does not fail: it returns a result with the same
\* frames in the same order, each carrying an empty dialogues list and
\* has_dialogue = false, with transcription_available = false and an empty
\* dialogue_segments list.
C17_DegradedResultComplete ==
    (zpc = "done" /\ analysis.kind = "returned"
       /\ ~analysis.transcription_available) =>
        /\ analysis.dialogue_segments = <<>>
        /\ Len(analysis.enhanced_scenes) = Len(scenes)
        /\ \A i \in 1..Len(scenes) :
             LET f == analysis.enhanced_scenes[i]
             IN  /\ f.timestamp = scenes[i].timestamp
                 /\ f.path = scenes[i].path
                 /\ f.scene_number = scenes[i].scene_number
                 /\ "dialogues" \in DOMAIN f
                 /\ f.dialogues = <<>>
                 /\ "has_dialogue" \in DOMAIN f
                 /\ f.has_dialogue = FALSE

\* C19: the intermediate audio file is deleted on every exit path of
\* analyze_video_audio: whichever way it exits after audio extraction
\* succeeded, no audio file is left behind.
C19_AudioFileRemoved == zpc = "done" => ~audio_file

\* ------------------------------------------------------------------------
\* Properties of the extraction loops of the scene-detection tiers
\* ------------------------------------------------------------------------

ExtractionLoops == {"fixed_loop", "scene_loop", "ffmpeg_loop"}

\* C20: a failure to extract the still image at one detected boundary (in
\* the primary or the secondary tier) is tolerated per frame, as in the
\* fixed-interval sampler: the boundary is skipped, the frames the tier has
\* extracted are kept and the remaining boundaries of the tier are still
\* processed.
C20_BoundaryFailureTolerated ==
    \A k \in 1..Len(attempts) :
       attempts[k].outcome = "error" =>
          /\ idx >= k
          /\ idx < Len(timestamps) => pc \in ExtractionLoops
          /\ \A j \in 1..(k - 1) :
                Succeeded(attempts[j]) =>
                   \E i \in 1..Len(frames) : frames[i].scene_number = j

\* ------------------------------------------------------------------------
\* Properties of the tier selection of extract_frames
\* ------------------------------------------------------------------------

SecondaryAttempted == \E k \in 1..Len(calls) : calls[k] = "secondary"

\* The primary detector is available and reported no scene or raised.
PrimaryGaveNothing ==
    /\ use_scene_detection
    /\ installed
    /\ \/ scene_list.kind = "raised"
       \/ scene_list.kind = "list" /\ scene_list.scenes = <<>>

\* C21: in scene-detection mode the secondary method is attempted if and
\* only if the primary detector cannot be imported; when the primary
\* detector is available and reports no boundary or raises, the secondary
\* is never attempted, only the fixed-interval sampler runs after it, with
\* interval 3.0 whatever interval_seconds is, and what is returned is the
\* result of that sampler.
C21_SecondaryOnlyWhenUnavailable ==
    /\ (use_scene_detection /\ pc \notin {"extract_frames", "scene"}) =>
          (SecondaryAttempted <=> ~installed)
    /\ PrimaryGaveNothing =>
          /\ ~SecondaryAttempted
          /\ Len(calls) >= 2
          /\ calls[1] = "primary"
          /\ \A k \in 2..Len(calls) : calls[k] = "fixed"
          /\ pc \in {"fixed", "fixed_loop", "done"}
          /\ interval = Float(300)
          /\ interval # interval_seconds
          /\ Returned => FixedThreeResult

\* The primary detector raised a processing error and the sampler, called
\* once by the except block, returned two frames or more.
C21_Witness ==
    /\ PrimaryGaveNothing
    /\ Returned
    /\ calls = <<"primary", "fixed">>
    /\ Len(result.frames) >= 2
    /\ scene_list.kind = "raised"

\* ------------------------------------------------------------------------
\* Properties of the secondary method
\* ------------------------------------------------------------------------

\* The secondary method parsed the output of its detection pass.
SecondaryParsed == detected_timestamps.kind = "list"

\* The secondary method has accepted its timestamps and no fallback has run.
SecondaryAccepted ==
    /\ SecondaryParsed
    /\ calls = <<"primary", "secondary">>
    /\ pc \in {"ffmpeg_loop", "done"}

FirstFifty(s) == IF Len(s) <= 50 THEN s ELSE SubSeq(s, 1, 50)

\* C22: the secondary method goes on with its own timestamps only when it
\* detected 2 or more; with 0 or 1 it calls the fixed-interval sampler with
\* interval 3.0; when it goes on, it uses the first 50 timestamps only and
\* returns at most 50 frames.
C22_SecondaryNeedsTwoAndCapsAtFifty ==
    SecondaryParsed =>
        LET n == Len(detected_timestamps.times)
        IN  /\ SecondaryAccepted => n >= 2
            /\ n < 2 =>
                  /\ Len(calls) >= 3
                  /\ \A k \in 3..Len(calls) : calls[k] = "fixed"
                  /\ interval = Float(300)
                  /\ Returned => FixedThreeResult
            /\ SecondaryAccepted =>
                  /\ timestamps = FirstFifty(Floats(detected_timestamps.times))
                  /\ Len(timestamps) <= 50
                  /\ Len(attempts) <= 50
                  /\ Len(frames) <= 50
                  /\ Returned =>
                        /\ result.frames = FramesOf("scene", attempts, 1)
                        /\ Len(result.frames) <= 50

\* The secondary method detected 51 timestamps and returned 50 frames.
C22_Witness ==
    /\ SecondaryAccepted
    /\ Returned
    /\ Len(detected_timestamps.times) = 51
    /\ Len(result.frames) = 50

\* ------------------------------------------------------------------------
\* Properties of the order of the steps of upload_video
\* ------------------------------------------------------------------------

NarrativeCallNames ==
    {"generate_screenplay_from_captions", "generate_screenplay_from_video"}

\* C23: in every upload run that reaches the narrative collaborator the
\* steps come in the order frame extraction, per-frame captioning,
\* transcript filtering, dialogue-to-frame alignment, deduplication,
\* narrative call: the frames handed to the narrative collaborator have
\* been through the aligner and the deduplication before the call.
C23_AlignedBeforeNarrative ==
    \A k \in 1..Len(pipeline) :
       pipeline[k] \in NarrativeCallNames =>
          \E s, a, d \in 1..(k - 1) :
             /\ pipeline[1] = "extract_frames"
             /\ \A c \in 1..Len(pipeline) :
                   pipeline[c] = "generate_caption" => c < s
             /\ pipeline[s] = "extract_dialogue_segments"
             /\ s < a
             /\ pipeline[a] = "match_dialogue_to_scenes"
             /\ a < d
             /\ pipeline[d] = "merge_consecutive_dialogues"

\* ------------------------------------------------------------------------
\* Properties of the lazy initialization of the captioning model
\* ------------------------------------------------------------------------

\* The three globals are unset, or all come from one load that succeeded.
OneLoad(h) ==
    /\ h.model = h.processor
    /\ h.processor = h.is_blip2
    /\ h.model = 0 \/ h.model \in successful

\* Request r has stored into none or into all three of the globals.
NotStoring(r) ==
    rpc[r] \notin {"store_model", "store_processor", "store_is_blip2"}

\* C24: whenever a request can read the globals model, processor and
\* is_blip2 (the event loop is free, or a request is at its check or at its
\* caption call), they are all unset or all the result of one successful
\* load; once all stores of the successful loads are done the last of them
\* is in place; no request captions with a model and a processor of
\* different loads.
C24_HandleNeverMixed ==
    /\ running = 0 => OneLoad(handle)
    /\ \A r \in Requests :
          /\ rpc[r] \in {"check", "load", "caption"} => OneLoad(handle)
          /\ \A k \in 1..Len(used[r]) :
                /\ OneLoad(used[r][k])
                /\ used[r][k].model # 0
    /\ ((\A r \in Requests : NotStoring(r)) /\ successful # {}) =>
          /\ handle.model \in successful
          /\ \A n \in successful : n <= handle.model

\* Two requests found the globals unset one after the other and each called
\* load_model; the first load failed, the second one is in place and the
\* second request captioned with it.
C24_Witness ==
    /\ loads = 3
    /\ successful = {3}
    /\ handle = LoadResult(3)
    /\ \E r \in Requests : rpc[r] = "done" /\ used[r] = <<>>
    /\ \E r \in Requests : Len(used[r]) >= 1 /\ used[r][1] = LoadResult(3)

\* ------------------------------------------------------------------------
\* Properties of extract_dialogue_segments on malformed transcripts
\* ------------------------------------------------------------------------

WellFormedSpan(sg) == {"start", "end", "text"} \subseteq DOMAIN sg

\* C25: a span of the transcript that lacks its start, end or text is
\* skipped: extract_dialogue_segments does not fail and returns the
\* well-formed spans that pass the duration filter.
C25_MalformedSpanSkipped ==
    (zpc \in {"match", "cleanup", "done"} /\ transcription_result.has_segments) =>
        /\ analysis.kind # "raised"
        /\ dialogues =
              DialogueLoop(SelectSeq(transcription_result.segments, WellFormedSpan),
                           DefaultMinDuration, 1, <<>>)

\* ------------------------------------------------------------------------
\* Properties of the fixed-interval sampler on an unknown duration
\* ------------------------------------------------------------------------

\* C26: when the probe yields a duration of zero (the video has none, or the
\* probe failed or printed something that is no number), the fixed-interval
\* sampler raises at once: it computes no target time, makes no single-frame
\* call and writes no image, and the error either leaves extract_frames or
\* enters the except block of the tier that called the sampler.
C26_ZeroDurationIsFatal ==
    [][(pc = "fixed" /\ FLe(duration', FZero)) =>
          /\ pc' # "fixed_loop"
          /\ UNCHANGED <<timestamps, idx, frames, attempts, files>>
          /\ IF handlers = <<>>
             THEN pc' = "done" /\ result'.kind = "error"
             ELSE pc' = "fixed" /\ handlers' = Tail(handlers)]_vars

\* The probe failed in fixed-interval mode and extract_frames raised without
\* a single-frame call.
C26_Witness ==
    /\ ~use_scene_detection
    /\ pc = "done"
    /\ calls = <<"fixed">>
    /\ duration = FZero
    /\ result.kind = "error"
    /\ attempts = <<>>

\* ------------------------------------------------------------------------
\* Properties of the validation of interval_seconds
\* ------------------------------------------------------------------------

\* extract_frames_fixed_interval has been called and not yet left.
SamplerRunning == pc \in {"fixed", "fixed_loop"}

\* The request carries an interval_seconds that is <= 0 or > 10.
OutOfRange ==
    /\ form_interval.given
    /\ \/ ~FLt(FZero, form_interval.value)
       \/ FLt(Float(1000), form_interval.value)

Count(tier) == Cardinality({k \in 1..Len(calls) : calls[k] = tier})

\* C28: within one extract_frames call in scene-detection mode each tier is
\* attempted at most once; in particular the fixed-interval sampler is
\* called at most once, and when it fails the failure leaves extract_frames
\* without another attempt.
C28_EachTierAtMostOnce ==
    use_scene_detection =>
        /\ Count("primary") <= 1
        /\ Count("secondary") <= 1
        /\ Count("fixed") <= 1

\* ------------------------------------------------------------------------
\* Properties of the frames directory when extract_frames returns
\* ------------------------------------------------------------------------

Paths(fr) == {fr[i].path : i \in 1..Len(fr)}

\* C29: when extract_frames returns, the images in the frames directory are
\* exactly the images the returned frames refer to, each referred to by one
\* frame: no image of a tier that was abandoned for a fallback is left.
C29_DirectoryMatchesResult ==
    Returned =>
        /\ files = Paths(result.frames)
        /\ Cardinality(Paths(result.frames)) = Len(result.frames)

\* ------------------------------------------------------------------------
\* Properties of the output of merge_consecutive_dialogues
\* ------------------------------------------------------------------------

\* The positions <<frame, index>> of the dialogues of a frame list.
Positions(ss) ==
    UNION { { <<i, j>> : j \in 1..Len(ss[i].dialogues) } :
            i \in { n \in 1..Len(ss) : "dialogues" \in DOMAIN ss[n] } }

KeyAt(ss, p) == Fingerprint(ss[p[1]].dialogues[p[2]])

\* The frames of ss are as match_dialogue_to_scenes returns them.
FromAligner(ss) ==
    \A i \in 1..Len(ss) :
       /\ {"dialogues", "has_dialogue"} \subseteq DOMAIN ss[i]
       /\ ss[i].has_dialogue = (Len(ss[i].dialogues) > 0)

\* C30: after merge_consecutive_dialogues every fingerprint (first 50
\* characters, lowercased, trimmed) occurs at most once in the output,
\* across the frames and within each frame, and it is on the earliest frame
\* of the input that carried it; when the input comes from
\* match_dialogue_to_scenes, every output frame has has_dialogue true if and
\* only if its dialogues list is not empty.
C30_FingerprintsUniqueAndFlagsConsistent ==
    Merged =>
        /\ \A p \in Positions(merged) : \A q \in Positions(merged) :
              KeyAt(merged, p) = KeyAt(merged, q) => p = q
        /\ \A p \in Positions(merge_scenes) :
              \E q \in Positions(merged) :
                 /\ KeyAt(merged, q) = KeyAt(merge_scenes, p)
                 /\ q[1] <= p[1]
                 /\ \A r \in Positions(merge_scenes) :
                       KeyAt(merge_scenes, r) = KeyAt(merge_scenes, p) =>
                          q[1] <= r[1]
        /\ \A q \in Positions(merged) :
              \E p \in Positions(merge_scenes) :
                 p[1] = q[1] /\ KeyAt(merge_scenes, p) = KeyAt(merged, q)
        /\ FromAligner(merge_scenes) =>
              /\ Len(merged) = Len(merge_scenes)
              /\ \A i \in 1..Len(merged) :
                    /\ {"dialogues", "has_dialogue"} \subseteq DOMAIN merged[i]
                    /\ merged[i].has_dialogue = (Len(merged[i].dialogues) > 0)

\* Three frames from the aligner: the second lost its only dialogue, a
\* repeat of the first frame's, and the third lost one of two.
C30_Witness ==
    /\ npc = "merged"
    /\ Len(merge_scenes) = 3
    /\ FromAligner(merge_scenes)
    /\ merge_scenes[2].has_dialogue
    /\ ~merged[2].has_dialogue
    /\ Len(merge_scenes[3].dialogues) >= 2
    /\ Len(merged[3].dialogues) = 1
====
